---- MODULE Spec2Model ----
(***************************************************************************)
(* Model of the PagerDuty adapter: the query-filter translation of the     *)
(* REST incident provider (incident/pagerduty_provider.go) and of the REST *)
(* service provider (service/pagerduty_provider.go), the name resolver     *)
(* (common/lookup.go) and the vocabulary mapper.                           *)
(*                                                                         *)
(* Go strings that the code inspects or transforms are sequences of        *)
(* one-character strings, so that strings.ToLower, strings.Contains,       *)
(* fmt.Sprintf("%d") and url.QueryEscape are computed, not assumed.        *)
(* Parameter names and error kinds, which the code only compares for       *)
(* equality, are TLA+ strings.                                             *)
(***************************************************************************)
EXTENDS Integers, Sequences, FiniteSets, TLC

\* ------------------------------------------------------------------------
\* Bounds of the model
\* ------------------------------------------------------------------------

\* longest Statuses / Severities list of a query
MaxList == 2
\* largest number of records in one name-resolution response
MaxRecords == 2
\* largest number of teams of a converted service record
MaxTeams == 3
\* largest number of calls on one in-memory provider in one behaviour
MaxCalls == 3
\* largest number of changes a caller makes to the maps it keeps
MaxMutations == 1
\* largest number of incidents stored before a Query
MaxStored == 10
\* number of goroutines that call one in-memory provider at once
MaxGoroutines == 2
\* largest number of calls the goroutines make between them
MaxOps == 3

\* ------------------------------------------------------------------------
\* String literals of the code, the tests and the README
\* ------------------------------------------------------------------------

Str_empty == << >>
Str_open == <<"o", "p", "e", "n">>
Str_Open == <<"O", "p", "e", "n">>
Str_triggered == <<"t", "r", "i", "g", "g", "e", "r", "e", "d">>
Str_acknowledged == <<"a", "c", "k", "n", "o", "w", "l", "e", "d", "g", "e", "d">>
Str_investigating == <<"i", "n", "v", "e", "s", "t", "i", "g", "a", "t", "i", "n", "g">>
Str_resolved == <<"r", "e", "s", "o", "l", "v", "e", "d">>
Str_closed == <<"c", "l", "o", "s", "e", "d">>
Str_weird == <<"w", "e", "i", "r", "d">>
Str_critical == <<"c", "r", "i", "t", "i", "c", "a", "l">>
Str_sev1 == <<"s", "e", "v", "1">>
Str_p1 == <<"p", "1">>
Str_high == <<"h", "i", "g", "h">>
Str_sev2 == <<"s", "e", "v", "2">>
Str_p2 == <<"p", "2">>
Str_medium == <<"m", "e", "d", "i", "u", "m">>
Str_sev3 == <<"s", "e", "v", "3">>
Str_p3 == <<"p", "3">>
Str_low == <<"l", "o", "w">>
Str_sev4 == <<"s", "e", "v", "4">>
Str_p4 == <<"p", "4">>
Str_100 == <<"1", "0", "0">>
Str_production == <<"p", "r", "o", "d", "u", "c", "t", "i", "o", "n">>
Str_nonexistent == <<"n", "o", "n", "e", "x", "i", "s", "t", "e", "n", "t">>
Str_platform == <<"p", "l", "a", "t", "f", "o", "r", "m">>
Str_ProductionAPI == <<"P", "r", "o", "d", "u", "c", "t", "i", "o", "n", " ", "A", "P", "I">>
Str_ProductionDatabase == <<"P", "r", "o", "d", "u", "c", "t", "i", "o", "n", " ", "D", "a", "t", "a", "b", "a", "s", "e">>
Str_StagingAPI == <<"S", "t", "a", "g", "i", "n", "g", " ", "A", "P", "I">>
Str_PlatformTeam == <<"P", "l", "a", "t", "f", "o", "r", "m", " ", "T", "e", "a", "m">>
Str_BackendTeam == <<"B", "a", "c", "k", "e", "n", "d", " ", "T", "e", "a", "m">>
Str_PlatformInfrastructure == <<"P", "l", "a", "t", "f", "o", "r", "m", " ", "I", "n", "f", "r", "a", "s", "t", "r", "u", "c", "t", "u", "r", "e">>
Str_sev5 == <<"s", "e", "v", "5">>
Str_p0 == <<"p", "0">>
Str_urgent == <<"u", "r", "g", "e", "n", "t">>
Str_missing == <<"m", "i", "s", "s", "i", "n", "g">>
Str_details == <<"d", "e", "t", "a", "i", "l", "s">>
Str_note == <<"n", "o", "t", "e">>
Str_not_found == <<"n", "o", "t", " ", "f", "o", "u", "n", "d">>
Str_LE1 == <<"L", "E", "1">>
Str_LE2 == <<"L", "E", "2">>
Str_notify == <<"n", "o", "t", "i", "f", "y">>
Str_annotate == <<"a", "n", "n", "o", "t", "a", "t", "e">>
Str_Alice == <<"A", "l", "i", "c", "e">>
Str_demo == <<"d", "e", "m", "o">>
Str_title == <<"t", "i", "t", "l", "e">>
Str_retitled == <<"r", "e", "t", "i", "t", "l", "e", "d">>
Str_svc_a == <<"s", "v", "c", "-", "a">>
Str_v == <<"v">>
Str_field == <<"f", "i", "e", "l", "d">>
Str_value == <<"v", "a", "l", "u", "e">>
Str_alice == <<"a", "l", "i", "c", "e">>
Str_meta == <<"m", "e", "t", "a">>
Str_first == <<"f", "i", "r", "s", "t">>
Str_mutated == <<"m", "u", "t", "a", "t", "e", "d">>
Str_anything == <<"a", "n", "y", "t", "h", "i", "n", "g">>
Str_Incident1 == <<"I", "n", "c", "i", "d", "e", "n", "t", " ", "1">>
Str_Incident2 == <<"I", "n", "c", "i", "d", "e", "n", "t", " ", "2">>
Str_prod == <<"p", "r", "o", "d">>
Str_API == <<"A", "P", "I">>
Str_SVC1 == <<"S", "V", "C", "1">>
Str_SVC2 == <<"S", "V", "C", "2">>
Str_SVC3 == <<"S", "V", "C", "3">>
Str_DEFAULT_SVC == <<"D", "E", "F", "A", "U", "L", "T", "_", "S", "V", "C">>
Str_CUSTOM_SVC == <<"C", "U", "S", "T", "O", "M", "_", "S", "V", "C">>
Str_TEAM1 == <<"T", "E", "A", "M", "1">>
Str_TEAM2 == <<"T", "E", "A", "M", "2">>
Str_TEAM3 == <<"T", "E", "A", "M", "3">>
Str_KEY1 == <<"K", "E", "Y", "1">>
Str_INC1 == <<"I", "N", "C", "1">>
Str_INC2 == <<"I", "N", "C", "2">>
Str_A_and_B == <<"A", "&", "B">>
Str_internal_error == <<"i", "n", "t", "e", "r", "n", "a", "l", " ", "e", "r", "r", "o", "r">>
Str_access_denied == <<"a", "c", "c", "e", "s", "s", " ", "d", "e", "n", "i", "e", "d">>
Str_pagerduty == <<"p", "a", "g", "e", "r", "d", "u", "t", "y">>
Str_first_incident == <<"f", "i", "r", "s", "t", " ", "i", "n", "c", "i", "d", "e", "n", "t">>
Str_second_incident == <<"s", "e", "c", "o", "n", "d", " ", "i", "n", "c", "i", "d", "e", "n", "t">>
Str_second == <<"s", "e", "c", "o", "n", "d">>
Str_svc_b == <<"s", "v", "c", "-", "b">>
Str_SVC_A_spaced == <<" ", "S", "V", "C", "-", "A", " ">>
Str_sre == <<"s", "r", "e">>
Str_staging == <<"s", "t", "a", "g", "i", "n", "g">>
Str_token == <<"t", "o", "k", "e", "n">>
Str_other == <<"o", "t", "h", "e", "r">>
Str_blank == <<" ">>
Str_api_pagerduty_com == <<"h", "t", "t", "p", "s", ":", "/", "/", "a", "p", "i", ".", "p", "a", "g", "e", "r", "d", "u", "t", "y", ".", "c", "o", "m">>
Str_PXXXXXX == <<"P", "X", "X", "X", "X", "X", "X">>
Str_user_example_com == <<"u", "s", "e", "r", "@", "e", "x", "a", "m", "p", "l", "e", ".", "c", "o", "m">>

UpperChars == <<"A", "B", "C", "D", "E", "F", "G", "H", "I", "J", "K", "L", "M", "N", "O", "P", "Q", "R", "S", "T", "U", "V", "W", "X", "Y", "Z">>
LowerChars == <<"a", "b", "c", "d", "e", "f", "g", "h", "i", "j", "k", "l", "m", "n", "o", "p", "q", "r", "s", "t", "u", "v", "w", "x", "y", "z">>
DigitChars == <<"0", "1", "2", "3", "4", "5", "6", "7", "8", "9">>

Range(s) == {s[i] : i \in 1..Len(s)}

\* all sequences over S of length at most n
BSeq(S, n) == UNION {[1..k -> S] : k \in 0..n}

\* ------------------------------------------------------------------------
\* Go standard library, as far as the code uses it
\* ------------------------------------------------------------------------

\* strings.ToLower on one character (ASCII letters)
ToLowerChar(c) ==
    IF \E i \in 1..Len(UpperChars) : UpperChars[i] = c
    THEN LowerChars[CHOOSE i \in 1..Len(UpperChars) : UpperChars[i] = c]
    ELSE c

\* strings.ToLower
ToLower(s) == [i \in 1..Len(s) |-> ToLowerChar(s[i])]

\* strings.Contains(s, substr)
Contains(s, substr) ==
    \E i \in 0..(Len(s) - Len(substr)) : SubSeq(s, i + 1, i + Len(substr)) = substr

RECURSIVE FormatNat(_)
FormatNat(n) ==
    IF n < 10 THEN <<DigitChars[n + 1]>>
    ELSE Append(FormatNat(n \div 10), DigitChars[(n % 10) + 1])

\* fmt.Sprintf("%d", n)
Sprintf_d(n) == IF n < 0 THEN <<"-">> \o FormatNat(0 - n) ELSE FormatNat(n)

\* the characters url.QueryEscape leaves alone
Unreserved == Range(UpperChars) \cup Range(LowerChars) \cup Range(DigitChars) \cup {"-", "_", ".", "~"}

\* url.QueryEscape on one character: unreserved characters are kept, a space
\* becomes "+", anything else its %XX code
EscapeChar(c) ==
    IF c \in Unreserved THEN <<c>>
    ELSE IF c = " " THEN <<"+">>
    ELSE IF c = "&" THEN <<"%", "2", "6">>
    ELSE IF c = "=" THEN <<"%", "3", "D">>
    ELSE IF c = "+" THEN <<"%", "2", "B">>
    ELSE IF c = "%" THEN <<"%", "2", "5">>
    ELSE IF c = "[" THEN <<"%", "5", "B">>
    ELSE IF c = "]" THEN <<"%", "5", "D">>
    ELSE <<"%", "3", "F">>

RECURSIVE QueryEscape(_)
QueryEscape(s) ==
    IF s = << >> THEN << >> ELSE EscapeChar(Head(s)) \o QueryEscape(Tail(s))

\* url.QueryUnescape, the receiving side of the request
RECURSIVE QueryUnescape(_)
QueryUnescape(s) ==
    IF s = << >> THEN << >>
    ELSE IF Head(s) = "+" THEN <<" ">> \o QueryUnescape(Tail(s))
    ELSE IF Head(s) = "%" /\ Len(s) >= 3
         THEN LET code == SubSeq(s, 2, 3)
                  c == IF code = <<"2", "6">> THEN "&"
                       ELSE IF code = <<"3", "D">> THEN "="
                       ELSE IF code = <<"2", "B">> THEN "+"
                       ELSE IF code = <<"2", "5">> THEN "%"
                       ELSE IF code = <<"5", "B">> THEN "["
                       ELSE IF code = <<"5", "D">> THEN "]"
                       ELSE "?"
              IN <<c>> \o QueryUnescape(SubSeq(s, 4, Len(s)))
    ELSE <<Head(s)>> \o QueryUnescape(Tail(s))

\* the parameter names of the three endpoints, in the byte order in which
\* url.Values.Encode sorts them
ParamKeys == <<"incident_key", "limit", "query", "service_ids[]", "statuses[]", "team_ids[]", "urgencies[]">>

\* url.Values{}: a map from parameter name to its list of values
EmptyValues == [k \in {} |-> << >>]

\* url.Values.Set: replaces whatever the key held by the single value
ValuesSet(v, key, value) ==
    [k \in (DOMAIN v) \cup {key} |-> IF k = key THEN <<value>> ELSE v[k]]

\* url.Values.Add: appends the value to the key's list
ValuesAdd(v, key, value) ==
    [k \in (DOMAIN v) \cup {key} |->
        IF k = key
        THEN (IF key \in DOMAIN v THEN Append(v[key], value) ELSE <<value>>)
        ELSE v[k]]

\* the key=value pairs of one key, values escaped
RECURSIVE EncodeKey(_, _)
EncodeKey(key, vals) ==
    IF vals = << >> THEN << >>
    ELSE <<[key |-> key, value |-> QueryEscape(Head(vals))]>> \o EncodeKey(key, Tail(vals))

\* url.Values.Encode: the pairs of every key, keys in sorted order; a key
\* whose list is empty contributes nothing
RECURSIVE EncodeFrom(_, _)
EncodeFrom(v, i) ==
    IF i > Len(ParamKeys) THEN << >>
    ELSE (IF ParamKeys[i] \in DOMAIN v THEN EncodeKey(ParamKeys[i], v[ParamKeys[i]]) ELSE << >>)
         \o EncodeFrom(v, i + 1)

Encode(v) == EncodeFrom(v, 1)

\* url.ParseQuery (r.URL.Query() in the test servers): the multi-map the
\* receiving side reads off the raw query
RECURSIVE ParseQuery(_)
ParseQuery(raw) ==
    IF raw = << >> THEN EmptyValues
    ELSE LET rest == ParseQuery(SubSeq(raw, 1, Len(raw) - 1))
             last == raw[Len(raw)]
         IN ValuesAdd(rest, last.key, QueryUnescape(last.value))

\* ------------------------------------------------------------------------
\* Vocabulary mapper (incident/pagerduty_provider.go)
\* ------------------------------------------------------------------------

\* mapSeverityToUrgency whose default case returns "low"
mapSeverityToUrgency_DefaultLow(severity) ==
    LET s == ToLower(severity) IN
    IF s \in {Str_critical, Str_sev1, Str_p1} THEN Str_high
    ELSE IF s \in {Str_high, Str_sev2, Str_p2} THEN Str_high
    ELSE Str_low

mapSeverityToUrgency(severity) ==
    LET s == ToLower(severity) IN
    IF s \in {Str_critical, Str_sev1, Str_p1} THEN Str_high
    ELSE IF s \in {Str_high, Str_sev2, Str_p2} THEN Str_high
    ELSE IF s \in {Str_medium, Str_sev3, Str_p3} THEN Str_low
    ELSE IF s \in {Str_low, Str_sev4, Str_p4} THEN Str_low
    ELSE Str_high

\* mapUrgencyToSeverity that returns the urgency word itself for "low"
mapUrgencyToSeverity_LowIsLow(urgency) ==
    LET s == ToLower(urgency) IN
    IF s = Str_high THEN Str_critical
    ELSE IF s = Str_low THEN Str_low
    ELSE Str_medium

mapUrgencyToSeverity(urgency) ==
    LET s == ToLower(urgency) IN
    IF s = Str_high THEN Str_critical
    ELSE IF s = Str_low THEN Str_medium
    ELSE Str_medium

\* mapStatusToPD whose default case returns the lower-cased status
mapStatusToPD_Lowered(status) ==
    LET s == ToLower(status) IN
    IF s \in {Str_open, Str_triggered} THEN Str_triggered
    ELSE IF s \in {Str_acknowledged, Str_investigating} THEN Str_acknowledged
    ELSE IF s \in {Str_resolved, Str_closed} THEN Str_resolved
    ELSE s

mapStatusToPD(status) ==
    LET s == ToLower(status) IN
    IF s \in {Str_open, Str_triggered} THEN Str_triggered
    ELSE IF s \in {Str_acknowledged, Str_investigating} THEN Str_acknowledged
    ELSE IF s \in {Str_resolved, Str_closed} THEN Str_resolved
    ELSE status

mapPDStatusToOpsOrch(status) ==
    LET s == ToLower(status) IN
    IF s = Str_triggered THEN Str_open
    ELSE IF s = Str_acknowledged THEN Str_acknowledged
    ELSE IF s = Str_resolved THEN Str_resolved
    ELSE status

\* ------------------------------------------------------------------------
\* HTTP exchange: what client.Do and the response body give the caller
\* ------------------------------------------------------------------------

\* http.StatusOK
StatusOK == 200

\* error values; NoError is Go's nil error.  op and name are the context the
\* Query adds ("lookup service by name %q"), cause is the failing step, detail
\* the wrapped transport error, code and body the non-200 response
NoError == [op |-> "", name |-> << >>, cause |-> "", detail |-> "", code |-> 0, body |-> << >>]

ExecuteError(resp) == [NoError EXCEPT !.cause = "execute request", !.detail = resp.t]
\* APIError without the response body
APIError_NoBody(resp) == [NoError EXCEPT !.cause = "pagerduty api error", !.code = resp.code]
APIError(resp) == [NoError EXCEPT !.cause = "pagerduty api error", !.code = resp.code, !.body = resp.body]
DecodeError == [NoError EXCEPT !.cause = "decode response"]

\* fmt.Errorf("lookup ... by name %q: %w", name, err)
Wrap(op, name, err) == [err EXCEPT !.op = op, !.name = name]

\* the request a name resolution sends: query=<name>, limit=100
LookupRequest(path, name) ==
    [path |-> path,
     rawQuery |-> Encode(ValuesSet(ValuesSet(EmptyValues, "query", name), "limit", Str_100))]

\* MatchingIDs without strings.ToLower on the record's name
RECURSIVE MatchingIDs_CaseSensitive(_, _)
MatchingIDs_CaseSensitive(records, lowerName) ==
    IF records = << >> THEN << >>
    ELSE (IF Contains(Head(records).Name, lowerName) THEN <<Head(records).ID>> ELSE << >>)
         \o MatchingIDs_CaseSensitive(Tail(records), lowerName)

\* the IDs of the records whose lower-cased name contains lowerName, in order
RECURSIVE MatchingIDs(_, _)
MatchingIDs(records, lowerName) ==
    IF records = << >> THEN << >>
    ELSE (IF Contains(ToLower(Head(records).Name), lowerName) THEN <<Head(records).ID>> ELSE << >>)
         \o MatchingIDs(Tail(records), lowerName)

\* common.LookupServiceIDsByName, given the outcome of its one request
LookupServiceIDsByName(resp, name) ==
    IF resp.t # "http" THEN [ids |-> << >>, err |-> ExecuteError(resp)]
    ELSE IF resp.code # StatusOK THEN [ids |-> << >>, err |-> APIError(resp)]
    ELSE IF ~resp.decodes THEN [ids |-> << >>, err |-> DecodeError]
    ELSE [ids |-> MatchingIDs(resp.items, ToLower(name)), err |-> NoError]

\* common.LookupTeamIDsByName, given the outcome of its one request
LookupTeamIDsByName(resp, name) ==
    IF resp.t # "http" THEN [ids |-> << >>, err |-> ExecuteError(resp)]
    ELSE IF resp.code # StatusOK THEN [ids |-> << >>, err |-> APIError(resp)]
    ELSE IF ~resp.decodes THEN [ids |-> << >>, err |-> DecodeError]
    ELSE [ids |-> MatchingIDs(resp.items, ToLower(name)), err |-> NoError]

\* ------------------------------------------------------------------------
\* Response converters
\* ------------------------------------------------------------------------

\* convertPDIncident: the host incident of a provider record (the URL and
\* timestamp fields, which no filter reads, are left out of the record).
\* The literal sets no Description, which stays at its zero value.
convertPDIncident(pdInc, source) ==
    [ID |-> pdInc.ID,
     Title |-> pdInc.Title,
     Description |-> << >>,
     Status |-> mapPDStatusToOpsOrch(pdInc.Status),
     Severity |-> mapUrgencyToSeverity(pdInc.Urgency),
     Service |-> pdInc.Service.Summary,
     Metadata |-> [source |-> source,
                   incident_key |-> pdInc.IncidentKey,
                   service_id |-> pdInc.Service.ID]]

\* fmt.Sprintf("team_%d", i)
TeamTag(i) == <<"t", "e", "a", "m", "_">> \o Sprintf_d(i)

\* the Tags map after the first n rounds of the loop over pdSvc.Teams, whose
\* round i (from 0) assigns Tags["team_<i>"] = team.Summary
RECURSIVE TeamTags(_, _)
TeamTags(teams, n) ==
    IF n = 0 THEN [k \in {} |-> << >>]
    ELSE LET before == TeamTags(teams, n - 1) IN
         [k \in DOMAIN before \cup {TeamTag(n - 1)} |->
             IF k = TeamTag(n - 1) THEN teams[n].Summary ELSE before[k]]

\* convertPDService with tag numbers counted from 1
convertPDService_OneBased(pdSvc, source) ==
    [ID |-> pdSvc.ID,
     Name |-> pdSvc.Name,
     Tags |-> [k \in {TeamTag(i) : i \in 1..Len(pdSvc.Teams)} |->
                 pdSvc.Teams[CHOOSE i \in 1..Len(pdSvc.Teams) : k = TeamTag(i)].Summary],
     Metadata |-> IF Len(pdSvc.Teams) > 0
                  THEN ("source" :> source)
                       @@ ("teams" :> [i \in 1..Len(pdSvc.Teams) |->
                              [id |-> pdSvc.Teams[i].ID, summary |-> pdSvc.Teams[i].Summary]])
                  ELSE ("source" :> source)]

\* convertPDService: the host service of a provider record; the teams
\* metadata and the team tags are written only when the record has teams
\* (the descriptive metadata copied field by field is left out)
convertPDService(pdSvc, source) ==
    [ID |-> pdSvc.ID,
     Name |-> pdSvc.Name,
     Tags |-> TeamTags(pdSvc.Teams, Len(pdSvc.Teams)),
     Metadata |-> IF Len(pdSvc.Teams) > 0
                  THEN ("source" :> source)
                       @@ ("teams" :> [i \in 1..Len(pdSvc.Teams) |->
                              [id |-> pdSvc.Teams[i].ID, summary |-> pdSvc.Teams[i].Summary]])
                  ELSE ("source" :> source)]

\* the element-by-element image of a list
MapSeq(Op(_), s) == [i \in 1..Len(s) |-> Op(s[i])]

\* ------------------------------------------------------------------------
\* Queries (schema.IncidentQuery, schema.ServiceQuery) and their inputs
\* ------------------------------------------------------------------------

\* a Metadata value (map[string]any): a string or something else (a number)
MString(s) == [isString |-> TRUE, s |-> s]
MNumber == [isString |-> FALSE, s |-> << >>]
EmptyMeta == [k \in {} |-> MNumber]

\* HasMetaString without the type assertion: any value under the key counts
HasMetaString_AnyValue(meta, key) ==
    key \in DOMAIN meta

\* v, ok := q.Metadata[key].(string); ok && v != ""
HasMetaString(meta, key) ==
    /\ key \in DOMAIN meta
    /\ meta[key].isString
    /\ meta[key].s # << >>

\* the zero value of a query; one record stands for both query types, a
\* service query leaving Query, Statuses and Severities at their zero value
\* and an incident query leaving Name at its zero value
ZeroQuery ==
    [Query |-> << >>, Name |-> << >>, Statuses |-> << >>, Severities |-> << >>, Limit |-> 0,
     Scope |-> [Service |-> << >>, Team |-> << >>, Environment |-> << >>],
     Metadata |-> EmptyMeta]

Limits == {0 - 1, 0, 20}
StatusVals == {Str_Open, Str_acknowledged, Str_weird}
SeverityVals == {Str_critical, Str_high, Str_low}
ServiceNames == {<< >>, Str_production, Str_nonexistent}
TeamNames == {<< >>, Str_platform}
EnvironmentNames == {<< >>, Str_prod}
QueryTexts == {<< >>, Str_Incident2}

ServiceIDMetas ==
    {EmptyMeta, "service_id" :> MString(Str_CUSTOM_SVC), "service_id" :> MString(<< >>),
     "service_id" :> MNumber}
TeamIDMetas == {EmptyMeta, "team_id" :> MString(Str_TEAM2), "team_id" :> MString(<< >>)}
OtherMetas ==
    {EmptyMeta, "incident_key" :> MString(Str_KEY1), "incident_key" :> MNumber,
     "incident_key" :> MString(<< >>),
     "environment" :> MString(Str_prod),
     ("incident_key" :> MString(Str_KEY1)) @@ ("service_id" :> MString(Str_A_and_B))}

\* incident queries that vary the direct filters: every Statuses list beside
\* two Severities lists, and every Severities list beside two Statuses lists
FilterQueries ==
    {[ZeroQuery EXCEPT !.Limit = l, !.Statuses = st, !.Severities = sv, !.Query = txt,
                       !.Scope.Environment = env] :
        l \in Limits, st \in BSeq(StatusVals, MaxList), sv \in {<< >>, <<Str_critical, Str_high>>},
        txt \in QueryTexts, env \in EnvironmentNames}
    \cup
    {[ZeroQuery EXCEPT !.Limit = l, !.Statuses = st, !.Severities = sv, !.Query = txt,
                       !.Scope.Environment = env] :
        l \in Limits, st \in {<< >>, <<Str_open, Str_acknowledged>>}, sv \in BSeq(SeverityVals, MaxList),
        txt \in QueryTexts, env \in EnvironmentNames}

\* incident queries that vary the scope and the metadata
ScopeQueries ==
    {[ZeroQuery EXCEPT !.Scope = [Service |-> svc, Team |-> team, Environment |-> env],
                       !.Metadata = ms @@ mt, !.Query = txt] :
        svc \in ServiceNames, team \in TeamNames, env \in EnvironmentNames,
        ms \in ServiceIDMetas, mt \in TeamIDMetas, txt \in QueryTexts}
    \cup
    {[ZeroQuery EXCEPT !.Scope.Service = svc, !.Metadata = m, !.Limit = 20,
                       !.Statuses = <<Str_open>>] :
        svc \in ServiceNames, m \in OtherMetas}

IncidentQueries == FilterQueries \cup ScopeQueries

ServiceQueries ==
    {[ZeroQuery EXCEPT !.Name = n, !.Limit = l, !.Metadata = mt,
                       !.Scope = [Service |-> svc, Team |-> team, Environment |-> env]] :
        n \in {<< >>, Str_API, Str_ProductionAPI}, l \in Limits, mt \in TeamIDMetas \cup ServiceIDMetas,
        svc \in {<< >>, Str_production}, team \in TeamNames, env \in EnvironmentNames}

\* ------------------------------------------------------------------------
\* What the provider's API answers
\* ------------------------------------------------------------------------

\* one exchange: t is "http" when a response arrived, else the reason
\* client.Do failed; decodes tells whether the body of a 200 is the JSON the
\* caller expects, items are the records in it
OKResponse(items) == [t |-> "http", code |-> StatusOK, body |-> << >>, decodes |-> TRUE, items |-> items]

FailResponses ==
    {[t |-> "transport", code |-> 0, body |-> << >>, decodes |-> FALSE, items |-> << >>],
     [t |-> "context canceled", code |-> 0, body |-> << >>, decodes |-> FALSE, items |-> << >>],
     [t |-> "http", code |-> 500, body |-> Str_internal_error, decodes |-> FALSE, items |-> << >>],
     [t |-> "http", code |-> StatusOK, body |-> << >>, decodes |-> FALSE, items |-> << >>]}

ServiceRecords ==
    {[ID |-> Str_SVC1, Name |-> Str_ProductionAPI],
     [ID |-> Str_SVC2, Name |-> Str_ProductionDatabase],
     [ID |-> Str_SVC3, Name |-> Str_StagingAPI]}

TeamRecords ==
    {[ID |-> Str_TEAM1, Name |-> Str_PlatformTeam],
     [ID |-> Str_TEAM2, Name |-> Str_BackendTeam]}

pdIncident1 ==
    [ID |-> Str_INC1, IncidentKey |-> Str_KEY1, Title |-> Str_Incident1,
     Status |-> Str_triggered, Urgency |-> Str_high,
     Service |-> [ID |-> Str_SVC1, Summary |-> Str_ProductionAPI]]

pdIncident2 ==
    [ID |-> Str_INC2, IncidentKey |-> << >>, Title |-> Str_Incident2,
     Status |-> Str_acknowledged, Urgency |-> Str_low,
     Service |-> [ID |-> Str_SVC2, Summary |-> Str_ProductionDatabase]]

pdService1 ==
    [ID |-> Str_SVC1, Name |-> Str_ProductionAPI,
     Teams |-> <<[ID |-> Str_TEAM1, Summary |-> Str_PlatformTeam]>>]

ServiceLookupResponses == FailResponses \cup {OKResponse(items) : items \in BSeq(ServiceRecords, MaxRecords)}
TeamLookupResponses == FailResponses \cup {OKResponse(items) : items \in BSeq(TeamRecords, MaxRecords)}
IncidentListResponses == FailResponses \cup {OKResponse(<< >>), OKResponse(<<pdIncident1, pdIncident2>>)}
ServiceListResponses == FailResponses \cup {OKResponse(<< >>), OKResponse(<<pdService1>>)}

\* ------------------------------------------------------------------------
\* Query translator: the statements of the two Query methods
\* ------------------------------------------------------------------------

\* WithLimit with the test q.Limit != 0 in place of q.Limit > 0
WithLimit_NonZero(params, q) ==
    IF q.Limit # 0 THEN ValuesSet(params, "limit", Sprintf_d(q.Limit))
    ELSE ValuesSet(params, "limit", Str_100)

\* if q.Limit > 0 { params.Set("limit", Sprintf("%d", q.Limit)) } else { params.Set("limit", "100") }
WithLimit(params, q) ==
    IF q.Limit > 0 THEN ValuesSet(params, "limit", Sprintf_d(q.Limit))
    ELSE ValuesSet(params, "limit", Str_100)

\* for _, value := range list { params.Add(key, value) }
RECURSIVE AddAll(_, _, _)
AddAll(params, key, list) ==
    IF list = << >> THEN params
    ELSE AddAll(ValuesAdd(params, key, Head(list)), key, Tail(list))

\* for _, status := range q.Statuses { params.Add("statuses[]", mapStatusToPD(status)) }
WithStatuses(params, q) == AddAll(params, "statuses[]", MapSeq(mapStatusToPD, q.Statuses))

\* WithSeverities with params.Set in place of params.Add
WithSeverities_Set(params, q) ==
    IF q.Severities = << >> THEN params
    ELSE ValuesSet(params, "urgencies[]", mapSeverityToUrgency(q.Severities[Len(q.Severities)]))

\* for _, severity := range q.Severities { params.Add("urgencies[]", mapSeverityToUrgency(severity)) }
WithSeverities(params, q) == AddAll(params, "urgencies[]", MapSeq(mapSeverityToUrgency, q.Severities))

\* for _, id := range serviceIDs { params.Add("service_ids[]", id) }
WithServiceIDs(params, serviceIDs) == AddAll(params, "service_ids[]", serviceIDs)

\* for _, id := range teamIDs { params.Add("team_ids[]", id) }
WithTeamIDs(params, teamIDs) == AddAll(params, "team_ids[]", teamIDs)

\* WithIncidentMetadata with params.Set in place of params.Add
WithIncidentMetadata_Replace(params, q) ==
    LET p1 == IF HasMetaString(q.Metadata, "service_id")
              THEN ValuesSet(params, "service_ids[]", q.Metadata["service_id"].s) ELSE params
        p2 == IF HasMetaString(q.Metadata, "team_id")
              THEN ValuesSet(p1, "team_ids[]", q.Metadata["team_id"].s) ELSE p1
    IN IF HasMetaString(q.Metadata, "incident_key")
       THEN ValuesSet(p2, "incident_key", q.Metadata["incident_key"].s) ELSE p2

\* the metadata block of the incident Query
WithIncidentMetadata(params, q) ==
    LET p1 == IF HasMetaString(q.Metadata, "service_id")
              THEN ValuesAdd(params, "service_ids[]", q.Metadata["service_id"].s) ELSE params
        p2 == IF HasMetaString(q.Metadata, "team_id")
              THEN ValuesAdd(p1, "team_ids[]", q.Metadata["team_id"].s) ELSE p1
    IN IF HasMetaString(q.Metadata, "incident_key")
       THEN ValuesSet(p2, "incident_key", q.Metadata["incident_key"].s) ELSE p2

\* WithName that sends the lower-cased Name
WithName_Lowered(params, q) ==
    IF q.Name # << >> THEN ValuesSet(params, "query", ToLower(q.Name)) ELSE params

\* if q.Name != "" { params.Set("query", q.Name) }
WithName(params, q) == IF q.Name # << >> THEN ValuesSet(params, "query", q.Name) ELSE params

\* the metadata block of the service Query
WithServiceMetadata(params, q) ==
    IF HasMetaString(q.Metadata, "team_id")
    THEN ValuesAdd(params, "team_ids[]", q.Metadata["team_id"].s) ELSE params

\* ------------------------------------------------------------------------
\* One Query call in progress
\* ------------------------------------------------------------------------

\* pc: "idle" before the first call, "awaitServiceLookup", "awaitTeamLookup",
\* "awaitList" while the Query is blocked in client.Do, "done" after it
\* returned.  kind: "incident" or "service".  params: the url.Values built so
\* far.  serviceIDs, teamIDs: what the resolutions returned.  calls: the
\* requests issued so far, each with the statement that issued it (what).
\* answers: for every call that returned, whether a response arrived (t),
\* its status code and whether its body decoded.  listed: the records of the listing response.
\* err, out: the returned error and list (out is nil on error).
IdleRun ==
    [pc |-> "idle", kind |-> "", q |-> ZeroQuery, params |-> EmptyValues,
     serviceIDs |-> << >>, teamIDs |-> << >>, calls |-> << >>, answers |-> << >>,
     listed |-> << >>, err |-> NoError, out |-> << >>]

\* the caller got the response of its pending call
Answered(r, resp) ==
    [r EXCEPT !.answers = Append(@, [t |-> resp.t, code |-> resp.code, decodes |-> resp.decodes,
                                    body |-> resp.body])]

ListPath(kind) == IF kind = "incident" THEN "/incidents" ELSE "/services"

\* return nil, err
Fail(r, err) == [r EXCEPT !.pc = "done", !.err = err, !.out = << >>]

\* IssueList that sends a non-empty Scope.Environment as the query parameter
IssueList_Environment(r) ==
    LET meta == IF r.kind = "incident" THEN WithIncidentMetadata(r.params, r.q)
                ELSE WithServiceMetadata(r.params, r.q)
        params == IF r.q.Scope.Environment # << >>
                  THEN ValuesSet(meta, "query", r.q.Scope.Environment) ELSE meta
    IN [r EXCEPT !.params = params,
                 !.calls = Append(@, [what |-> "list",
                                      req |-> [path |-> ListPath(r.kind), rawQuery |-> Encode(params)]]),
                 !.pc = "awaitList"]

\* from the metadata block to the listing request
IssueList(r) ==
    LET params == IF r.kind = "incident" THEN WithIncidentMetadata(r.params, r.q)
                  ELSE WithServiceMetadata(r.params, r.q)
    IN [r EXCEPT !.params = params,
                 !.calls = Append(@, [what |-> "list",
                                      req |-> [path |-> ListPath(r.kind), rawQuery |-> Encode(params)]]),
                 !.pc = "awaitList"]

\* AtScopeTeam with the test on q.Scope.Service in place of q.Scope.Team
AtScopeTeam_TestsService(r) ==
    IF r.q.Scope.Service # << >>
    THEN [r EXCEPT !.calls = Append(@, [what |-> "lookupTeam",
                                        req |-> LookupRequest("/teams", r.q.Scope.Team)]),
                   !.pc = "awaitTeamLookup"]
    ELSE IssueList(r)

\* if q.Scope.Team != "" { teamIDs, err := common.LookupTeamIDsByName(...) ...
AtScopeTeam(r) ==
    IF r.q.Scope.Team # << >>
    THEN [r EXCEPT !.calls = Append(@, [what |-> "lookupTeam",
                                        req |-> LookupRequest("/teams", r.q.Scope.Team)]),
                   !.pc = "awaitTeamLookup"]
    ELSE IssueList(r)

\* if q.Scope.Service != "" { serviceIDs, err := common.LookupServiceIDsByName(...) ...
AtScopeService(r) ==
    IF r.q.Scope.Service # << >>
    THEN [r EXCEPT !.calls = Append(@, [what |-> "lookupService",
                                        req |-> LookupRequest("/services", r.q.Scope.Service)]),
                   !.pc = "awaitServiceLookup"]
    ELSE AtScopeTeam(r)

\* BeginIncidentQuery that falls back to the configured ServiceID when the
\* query names no service
BeginIncidentQuery_DefaultService(c, query) ==
    LET base == WithSeverities(WithStatuses(WithLimit(EmptyValues, query), query), query)
        params == IF query.Scope.Service = << >> /\ ~HasMetaString(query.Metadata, "service_id")
                  THEN ValuesAdd(base, "service_ids[]", c.ServiceID) ELSE base
    IN AtScopeService([IdleRun EXCEPT !.kind = "incident", !.q = query, !.params = params])

\* incident Query from its entry to its first network call
BeginIncidentQuery(c, query) ==
    AtScopeService([IdleRun EXCEPT !.kind = "incident", !.q = query,
        !.params = WithSeverities(WithStatuses(WithLimit(EmptyValues, query), query), query)])

\* service Query from its entry to its first network call; it has no
\* Scope.Service block
BeginServiceQuery(c, query) ==
    AtScopeTeam([IdleRun EXCEPT !.kind = "service", !.q = query,
        !.params = WithName(WithLimit(EmptyValues, query), query)])

\* OnServiceLookup that carries on without service IDs when the resolution
\* fails
OnServiceLookup_BestEffort(r, resp) ==
    LET res == LookupServiceIDsByName(resp, r.q.Scope.Service) IN
    AtScopeTeam([Answered(r, resp) EXCEPT !.serviceIDs = res.ids,
                                          !.params = WithServiceIDs(r.params, res.ids)])

\* the service-name resolution returned
OnServiceLookup(r, resp) ==
    LET res == LookupServiceIDsByName(resp, r.q.Scope.Service) IN
    IF res.err # NoError
    THEN Fail(Answered(r, resp), Wrap("lookup service by name", r.q.Scope.Service, res.err))
    ELSE AtScopeTeam([Answered(r, resp) EXCEPT !.serviceIDs = res.ids,
                                               !.params = WithServiceIDs(r.params, res.ids)])

\* the team-name resolution returned
OnTeamLookup(r, resp) ==
    LET res == LookupTeamIDsByName(resp, r.q.Scope.Team) IN
    IF res.err # NoError
    THEN Fail(Answered(r, resp), Wrap("lookup team by name", r.q.Scope.Team, res.err))
    ELSE IssueList([Answered(r, resp) EXCEPT !.teamIDs = res.ids,
                                             !.params = WithTeamIDs(r.params, res.ids)])

\* the converted listing, one host entity per record, in order
ConvertListing(kind, items, source) ==
    [i \in 1..Len(items) |->
        IF kind = "incident" THEN convertPDIncident(items[i], source)
        ELSE convertPDService(items[i], source)]

\* the records whose lower-cased title contains the lower-cased text
RECURSIVE TitleMatches(_, _)
TitleMatches(items, text) ==
    IF items = << >> THEN << >>
    ELSE (IF Contains(ToLower(Head(items).Title), ToLower(text)) THEN <<Head(items)>> ELSE << >>)
         \o TitleMatches(Tail(items), text)

\* OnList that filters the incidents by q.Query on the client side
OnList_FilterText(r, resp, c) ==
    IF resp.t # "http" THEN Fail(Answered(r, resp), ExecuteError(resp))
    ELSE IF resp.code # StatusOK THEN Fail(Answered(r, resp), APIError(resp))
    ELSE IF ~resp.decodes THEN Fail(Answered(r, resp), DecodeError)
    ELSE [Answered(r, resp) EXCEPT !.pc = "done", !.listed = resp.items,
             !.out = ConvertListing(r.kind,
                        IF r.kind = "incident" /\ r.q.Query # << >>
                        THEN TitleMatches(resp.items, r.q.Query) ELSE resp.items,
                        c.Source)]

\* the listing call returned
OnList(r, resp, c) ==
    IF resp.t # "http" THEN Fail(Answered(r, resp), ExecuteError(resp))
    ELSE IF resp.code # StatusOK THEN Fail(Answered(r, resp), APIError(resp))
    ELSE IF ~resp.decodes THEN Fail(Answered(r, resp), DecodeError)
    ELSE [Answered(r, resp) EXCEPT !.pc = "done", !.listed = resp.items,
                   !.out = ConvertListing(r.kind, resp.items, c.Source)]

\* ------------------------------------------------------------------------
\* The single-request operations of the REST incident provider
\* ------------------------------------------------------------------------

\* http.StatusCreated, http.StatusNotFound
StatusCreated == 201
StatusNotFound == 404

\* var errNotFound = errors.New("incident not found")
errNotFound == [NoError EXCEPT !.cause = "incident not found"]

\* a *string of an input: nil, or a pointer to a value
Nil == [set |-> FALSE, v |-> << >>]
Ptr(v) == [set |-> TRUE, v |-> v]

\* the "body" of a JSON incident: absent, or an object with details
NoBody == [present |-> FALSE, details |-> << >>]
BodyOf(details) == [present |-> TRUE, details |-> details]

\* json.Decode into pdIncident: the struct has no field for "body", so the
\* decoder drops it
DecodeIncident(json) ==
    [ID |-> json.ID, IncidentKey |-> json.IncidentKey, Title |-> json.Title,
     Status |-> json.Status, Urgency |-> json.Urgency, Service |-> json.Service]

\* convertPDLogEntry: Actor is set only when the log entry has an agent
convertPDLogEntry(le, incidentID) ==
    [ID |-> le.ID, IncidentID |-> incidentID, Kind |-> le.Type, Body |-> le.Summary,
     Metadata |-> [type |-> le.Type],
     Actor |-> IF le.Agent.set THEN [isNil |-> FALSE, name |-> le.Agent.v]
               ELSE [isNil |-> TRUE, name |-> << >>]]

\* an operation before it is called.  op: the method; id, in: its
\* arguments; calls: the requests issued; answers: the responses received;
\* err, out: what it returned
IdleRest ==
    [pc |-> "idle", op |-> "", id |-> << >>, calls |-> << >>, answers |-> << >>,
     err |-> NoError, out |-> << >>]

\* the request of an operation, issued once, after which it blocks in client.Do
Issue(op, id, method, path, payload) ==
    [IdleRest EXCEPT !.pc = "await", !.op = op, !.id = id,
        !.calls = <<[method |-> method, path |-> path, id |-> id, payload |-> payload]>>]

\* the operation returns err and out
Return(r, resp, err, out) ==
    [r EXCEPT !.pc = "done", !.answers = Append(@, resp), !.err = err, !.out = out]

\* Get: GET /incidents/{id}
BeginGet(id) == Issue("Get", id, "GET", "/incidents/{id}", << >>)

\* the payload of Create: urgency from the severity or the configured
\* default, body only when Fields holds the key
CreatePayload(in, c) ==
    [title |-> in.Title,
     service |-> c.ServiceID,
     urgency |-> mapSeverityToUrgency(IF in.Severity # << >> THEN in.Severity
                                      ELSE c.DefaultSeverity),
     body |-> in.Body]

\* Create: POST /incidents
BeginCreate(in, c) == Issue("Create", << >>, "POST", "/incidents", CreatePayload(in, c))

\* the payload of Update: only the fields whose pointer is not nil
UpdatePayload(in) ==
    [title |-> in.Title,
     status |-> IF in.Status.set THEN Ptr(mapStatusToPD(in.Status.v)) ELSE Nil,
     urgency |-> IF in.Severity.set THEN Ptr(mapSeverityToUrgency(in.Severity.v)) ELSE Nil]

\* Update: PUT /incidents/{id}
BeginUpdate(id, in) == Issue("Update", id, "PUT", "/incidents/{id}", UpdatePayload(in))

\* GetTimeline: GET /incidents/{id}/log_entries
BeginGetTimeline(id) == Issue("GetTimeline", id, "GET", "/incidents/{id}/log_entries", << >>)

\* AppendTimeline: POST /incidents/{id}/notes
BeginAppendTimeline(id, entry) ==
    Issue("AppendTimeline", id, "POST", "/incidents/{id}/notes", [content |-> entry.Body])

\* Get after client.Do
OnGet(r, resp, c) ==
    IF resp.t # "http" THEN Return(r, resp, ExecuteError(resp), << >>)
    ELSE IF resp.code = StatusNotFound THEN Return(r, resp, errNotFound, << >>)
    ELSE IF resp.code # StatusOK THEN Return(r, resp, APIError(resp), << >>)
    ELSE IF ~resp.decodes THEN Return(r, resp, DecodeError, << >>)
    ELSE Return(r, resp, NoError, convertPDIncident(DecodeIncident(resp.incident), c.Source))

\* Create after client.Do; 404 is not told apart here
OnCreate(r, resp, c) ==
    IF resp.t # "http" THEN Return(r, resp, ExecuteError(resp), << >>)
    ELSE IF resp.code # StatusCreated THEN Return(r, resp, APIError(resp), << >>)
    ELSE IF ~resp.decodes THEN Return(r, resp, DecodeError, << >>)
    ELSE Return(r, resp, NoError, convertPDIncident(DecodeIncident(resp.incident), c.Source))

\* OnUpdate that reports 404 like any other non-200 answer
OnUpdate_NoNotFound(r, resp, c) ==
    IF resp.t # "http" THEN Return(r, resp, ExecuteError(resp), << >>)
    ELSE IF resp.code # StatusOK THEN Return(r, resp, APIError(resp), << >>)
    ELSE IF ~resp.decodes THEN Return(r, resp, DecodeError, << >>)
    ELSE Return(r, resp, NoError, convertPDIncident(DecodeIncident(resp.incident), c.Source))

\* Update after client.Do
OnUpdate(r, resp, c) ==
    IF resp.t # "http" THEN Return(r, resp, ExecuteError(resp), << >>)
    ELSE IF resp.code = StatusNotFound THEN Return(r, resp, errNotFound, << >>)
    ELSE IF resp.code # StatusOK THEN Return(r, resp, APIError(resp), << >>)
    ELSE IF ~resp.decodes THEN Return(r, resp, DecodeError, << >>)
    ELSE Return(r, resp, NoError, convertPDIncident(DecodeIncident(resp.incident), c.Source))

\* GetTimeline after client.Do; 404 is not told apart here
OnGetTimeline(r, resp) ==
    IF resp.t # "http" THEN Return(r, resp, ExecuteError(resp), << >>)
    ELSE IF resp.code # StatusOK THEN Return(r, resp, APIError(resp), << >>)
    ELSE IF ~resp.decodes THEN Return(r, resp, DecodeError, << >>)
    ELSE Return(r, resp, NoError,
                [i \in 1..Len(resp.entries) |-> convertPDLogEntry(resp.entries[i], r.id)])

\* AppendTimeline after client.Do; it reads no body on success
OnAppendTimeline(r, resp) ==
    IF resp.t # "http" THEN Return(r, resp, ExecuteError(resp), << >>)
    ELSE IF resp.code = StatusNotFound THEN Return(r, resp, errNotFound, << >>)
    ELSE IF resp.code # StatusCreated THEN Return(r, resp, APIError(resp), << >>)
    ELSE Return(r, resp, NoError, << >>)

\* ------------------------------------------------------------------------
\* The in-memory incident provider (the reference implementation)
\* ------------------------------------------------------------------------

\* A Go map is a reference: the heap holds the keys and values of every map
\* alive, and an incident, an input or a returned value holds the address of
\* its map.  A nil map has the address NilAddr.
NilAddr == 0
EmptyHeap == [a \in {} |-> << >>]
EmptyMap == [k \in {} |-> << >>]

\* a string held as a value of a map[string]any
MemStr(str) == [ref |-> NilAddr, s |-> str]

\* a fresh address: the smallest one not in use
Alloc(h) ==
    CHOOSE a \in 1..(Cardinality(DOMAIN h) + 1) :
        a \notin DOMAIN h /\ \A b \in 1..(a - 1) : b \in DOMAIN h

\* make(map[string]any) holding the given keys and values
NewMap(h, content) ==
    [heap |-> [a \in DOMAIN h \cup {Alloc(h)} |-> IF a \in DOMAIN h THEN h[a] ELSE content],
     addr |-> Alloc(h)]

\* m[key] = value
SetKey(content, key, value) ==
    [k \in DOMAIN content \cup {key} |-> IF k = key THEN value ELSE content[k]]

\* delete(m, key)
DeleteKey(content, key) == [k \in DOMAIN content \ {key} |-> content[k]]

\* cloneMap that returns the map it was given
cloneMap_Alias(h, in) == [heap |-> h, addr |-> in]

\* cloneMap: nil for nil, else a new map with every key of in and its value
cloneMap(h, in) ==
    IF in = NilAddr THEN [heap |-> h, addr |-> NilAddr]
    ELSE NewMap(h, h[in])

\* the provider New returns: no incident, no timeline, nextID 0.  The test
\* configuration has source "demo" and defaultSeverity "sev2".
NewMem ==
    [cfg |-> [Source |-> Str_demo, DefaultSeverity |-> Str_sev2],
     nextID |-> 0,
     incidents |-> [id \in {} |-> << >>],
     timeline |-> [id \in {} |-> << >>]]

\* fmt.Sprintf("pd-%d", n)
IncidentID(n) == <<"p", "d", "-">> \o Sprintf_d(n)

\* fmt.Sprintf("%s-t%d", id, n)
EntryID(id, n) == id \o <<"-", "t">> \o Sprintf_d(n)

\* what a call returned: the method, the error, the value
NoReturn == [op |-> "", err |-> NoError, val |-> << >>]

\* Create that leaves the counter p.nextID as it was
MemCreate_KeepCounter(m, h, in) ==
    LET n == m.nextID + 1
        id == IncidentID(n)
        fields == cloneMap(h, in.Fields)
        cloned == cloneMap(fields.heap, in.Metadata)
        metadata == IF cloned.addr = NilAddr THEN NewMap(cloned.heap, EmptyMap) ELSE cloned
        incident == [ID |-> id, Title |-> in.Title, Status |-> in.Status,
                     Severity |-> IF in.Severity # << >> THEN in.Severity
                                  ELSE m.cfg.DefaultSeverity,
                     Service |-> in.Service,
                     Fields |-> fields.addr, Metadata |-> metadata.addr]
    IN [mem |-> [m EXCEPT !.incidents = [i \in DOMAIN @ \cup {id} |->
                                            IF i = id THEN incident ELSE @[i]]],
        heap |-> [metadata.heap EXCEPT ![metadata.addr] =
                     SetKey(@, "source", MemStr(m.cfg.Source))],
        ret |-> [op |-> "Create", err |-> NoError, val |-> incident]]

\* Create (CreatedAt and UpdatedAt, which no operation reads, are left out).
\* The stored incident and the returned one are the same struct value, so
\* they hold the same two map addresses.
MemCreate(m, h, in) ==
    LET n == m.nextID + 1
        id == IncidentID(n)
        fields == cloneMap(h, in.Fields)
        cloned == cloneMap(fields.heap, in.Metadata)
        metadata == IF cloned.addr = NilAddr THEN NewMap(cloned.heap, EmptyMap) ELSE cloned
        incident == [ID |-> id, Title |-> in.Title, Status |-> in.Status,
                     Severity |-> IF in.Severity # << >> THEN in.Severity
                                  ELSE m.cfg.DefaultSeverity,
                     Service |-> in.Service,
                     Fields |-> fields.addr, Metadata |-> metadata.addr]
    IN [mem |-> [m EXCEPT !.nextID = n,
                          !.incidents = [i \in DOMAIN @ \cup {id} |->
                                            IF i = id THEN incident ELSE @[i]]],
        heap |-> [metadata.heap EXCEPT ![metadata.addr] =
                     SetKey(@, "source", MemStr(m.cfg.Source))],
        ret |-> [op |-> "Create", err |-> NoError, val |-> incident]]

\* Update that stores an incident under an id that was never created
MemUpdate_Upsert(m, h, id, in) ==
    LET old == IF id \in DOMAIN m.incidents THEN m.incidents[id]
               ELSE [ID |-> id, Title |-> << >>, Status |-> << >>, Severity |-> << >>,
                     Service |-> << >>, Fields |-> NilAddr, Metadata |-> NilAddr]
    IN  LET stored == [i \in DOMAIN m.incidents \cup {id} |->
                          IF i = id THEN old ELSE m.incidents[i]]
             fields == IF in.Fields # NilAddr THEN cloneMap(h, in.Fields)
                       ELSE [heap |-> h, addr |-> old.Fields]
             metadata == IF in.Metadata # NilAddr THEN cloneMap(fields.heap, in.Metadata)
                         ELSE [heap |-> fields.heap, addr |-> old.Metadata]
             inc == [old EXCEPT !.Title = IF in.Title.set THEN in.Title.v ELSE @,
                                !.Status = IF in.Status.set THEN in.Status.v ELSE @,
                                !.Severity = IF in.Severity.set THEN in.Severity.v ELSE @,
                                !.Service = IF in.Service.set THEN in.Service.v ELSE @,
                                !.Fields = fields.addr,
                                !.Metadata = metadata.addr]
         IN [mem |-> [m EXCEPT !.incidents = [stored EXCEPT ![id] = inc]],
             heap |-> metadata.heap,
             ret |-> [op |-> "Update", err |-> NoError, val |-> inc]]

\* Update
MemUpdate(m, h, id, in) ==
    IF id \notin DOMAIN m.incidents
    THEN [mem |-> m, heap |-> h, ret |-> [op |-> "Update", err |-> errNotFound, val |-> << >>]]
    ELSE LET old == m.incidents[id]
             fields == IF in.Fields # NilAddr THEN cloneMap(h, in.Fields)
                       ELSE [heap |-> h, addr |-> old.Fields]
             metadata == IF in.Metadata # NilAddr THEN cloneMap(fields.heap, in.Metadata)
                         ELSE [heap |-> fields.heap, addr |-> old.Metadata]
             inc == [old EXCEPT !.Title = IF in.Title.set THEN in.Title.v ELSE @,
                                !.Status = IF in.Status.set THEN in.Status.v ELSE @,
                                !.Severity = IF in.Severity.set THEN in.Severity.v ELSE @,
                                !.Service = IF in.Service.set THEN in.Service.v ELSE @,
                                !.Fields = fields.addr,
                                !.Metadata = metadata.addr]
         IN [mem |-> [m EXCEPT !.incidents[id] = inc],
             heap |-> metadata.heap,
             ret |-> [op |-> "Update", err |-> NoError, val |-> inc]]

\* AppendTimeline without the test that the incident exists
MemAppendTimeline_NoCheck(m, h, id, entry) ==
    IF FALSE THEN [mem |-> m, heap |-> h, ret |-> NoReturn]
    ELSE LET entries == IF id \in DOMAIN m.timeline THEN m.timeline[id] ELSE << >>
             n == Len(entries) + 1
             actor == cloneMap(h, entry.Actor)
             metadata == cloneMap(actor.heap, entry.Metadata)
             stored == [ID |-> EntryID(id, n), IncidentID |-> id, Kind |-> entry.Kind,
                        Body |-> entry.Body, Actor |-> actor.addr, Metadata |-> metadata.addr]
         IN [mem |-> [m EXCEPT !.timeline = [i \in DOMAIN @ \cup {id} |->
                                              IF i = id THEN Append(entries, stored) ELSE @[i]]],
             heap |-> metadata.heap,
             ret |-> [op |-> "AppendTimeline", err |-> NoError, val |-> << >>]]

\* AppendTimeline
MemAppendTimeline(m, h, id, entry) ==
    IF id \notin DOMAIN m.incidents
    THEN [mem |-> m, heap |-> h,
          ret |-> [op |-> "AppendTimeline", err |-> errNotFound, val |-> << >>]]
    ELSE LET entries == IF id \in DOMAIN m.timeline THEN m.timeline[id] ELSE << >>
             n == Len(entries) + 1
             actor == cloneMap(h, entry.Actor)
             metadata == cloneMap(actor.heap, entry.Metadata)
             stored == [ID |-> EntryID(id, n), IncidentID |-> id, Kind |-> entry.Kind,
                        Body |-> entry.Body, Actor |-> actor.addr, Metadata |-> metadata.addr]
         IN [mem |-> [m EXCEPT !.timeline = [i \in DOMAIN @ \cup {id} |->
                                              IF i = id THEN Append(entries, stored) ELSE @[i]]],
             heap |-> metadata.heap,
             ret |-> [op |-> "AppendTimeline", err |-> NoError, val |-> << >>]]

\* Get: the stored struct value, maps included
MemGet(m, id) ==
    IF id \notin DOMAIN m.incidents
    THEN [op |-> "Get", err |-> errNotFound, val |-> << >>]
    ELSE [op |-> "Get", err |-> NoError, val |-> m.incidents[id]]

\* GetTimeline: a copy of the slice p.timeline[id], empty for an unknown id
MemGetTimeline(m, id) ==
    [op |-> "GetTimeline", err |-> NoError,
     val |-> IF id \in DOMAIN m.timeline THEN m.timeline[id] ELSE << >>]

\* a nested map held as a value of a map[string]any: the value is the
\* reference, so two maps that hold it share the nested map
MemMap(a) == [ref |-> a, s |-> << >>]

\* strings.TrimSpace (the space character)
TrimSpace(s) ==
    LET kept == {i \in 1..Len(s) : s[i] # " "} IN
    IF kept = {} THEN << >>
    ELSE SubSeq(s, CHOOSE i \in kept : \A j \in kept : i <= j,
                   CHOOSE i \in kept : \A j \in kept : j <= i)

\* strings.EqualFold (ASCII letters)
EqualFold(s, t) == ToLower(s) = ToLower(t)

\* the byte of a character of an incident ID
ByteOf(c) ==
    IF c = "-" THEN 45
    ELSE IF \E i \in 1..Len(DigitChars) : DigitChars[i] = c
    THEN 47 + (CHOOSE i \in 1..Len(DigitChars) : DigitChars[i] = c)
    ELSE IF c = "d" THEN 100
    ELSE 112

\* s < t on Go strings: byte-wise lexicographic order
StringLess(s, t) ==
    LET n == IF Len(s) < Len(t) THEN Len(s) ELSE Len(t)
        diff == {i \in 1..n : s[i] # t[i]}
    IN IF diff = {} THEN Len(s) < Len(t)
       ELSE LET i == CHOOSE d \in diff : \A e \in diff : d <= e
            IN ByteOf(s[i]) < ByteOf(t[i])

\* sort.Slice by out[i].ID < out[j].ID, on a set of distinct IDs
RECURSIVE SortByID(_)
SortByID(ids) ==
    IF ids = {} THEN << >>
    ELSE LET least == CHOOSE a \in ids : \A b \in ids \ {a} : StringLess(a, b)
         IN <<least>> \o SortByID(ids \ {least})

\* containsString
containsString(list, target) == \E i \in 1..Len(list) : list[i] = target

\* metadataEqual on the map at address meta; expect is a string
metadataEqual(h, meta, key, expect, foldString) ==
    /\ meta # NilAddr
    /\ key \in DOMAIN h[meta]
    /\ LET val == h[meta][key] IN
       IF foldString /\ val.ref = NilAddr
       THEN EqualFold(val.s, expect.s)
       ELSE val = expect

\* matchesQuery
matchesQuery(h, inc, q) ==
    /\ q.Query # << >> =>
         Contains(ToLower(inc.ID \o <<" ">> \o inc.Title), ToLower(q.Query))
    /\ Len(q.Statuses) > 0 => containsString(q.Statuses, inc.Status)
    /\ Len(q.Severities) > 0 => containsString(q.Severities, inc.Severity)
    /\ TrimSpace(q.Scope.Service) # << >> =>
         EqualFold(inc.Service, TrimSpace(q.Scope.Service))
    /\ TrimSpace(q.Scope.Environment) # << >> =>
         metadataEqual(h, inc.Metadata, "environment",
                       MemStr(TrimSpace(q.Scope.Environment)), TRUE)
    /\ TrimSpace(q.Scope.Team) # << >> =>
         metadataEqual(h, inc.Metadata, "team", MemStr(TrimSpace(q.Scope.Team)), TRUE)
    /\ \A k \in DOMAIN q.Metadata :
         metadataEqual(h, inc.Metadata, k, q.Metadata[k], FALSE)

\* Query: the matching incidents, sorted by ID as strings, cut to Limit
MemQuery(m, h, q) ==
    LET found == {id \in DOMAIN m.incidents : matchesQuery(h, m.incidents[id], q)}
        ids == SortByID(found)
        sorted == [i \in 1..Len(ids) |-> m.incidents[ids[i]]]
    IN [op |-> "Query", err |-> NoError,
        val |-> IF q.Limit > 0 /\ Len(sorted) > q.Limit THEN SubSeq(sorted, 1, q.Limit)
                ELSE sorted]

\* List: every stored incident, in the order the map iteration yields them
MemList(m, order) ==
    [op |-> "List", err |-> NoError, val |-> [i \in 1..Len(order) |-> m.incidents[order[i]]]]

\* the map addresses in a returned value
AddrsOfReturn(r) ==
    IF r.err # NoError THEN {}
    ELSE IF r.op \in {"Create", "Update", "Get"} THEN {r.val.Fields, r.val.Metadata}
    ELSE IF r.op = "GetTimeline"
    THEN UNION {{r.val[i].Actor, r.val[i].Metadata} : i \in 1..Len(r.val)}
    ELSE IF r.op \in {"Query", "List"}
    THEN UNION {{r.val[i].Fields, r.val[i].Metadata} : i \in 1..Len(r.val)}
    ELSE {}

\* the map addresses in the provider's state
AddrsOfMem(m) ==
    UNION {{m.incidents[id].Fields, m.incidents[id].Metadata} : id \in DOMAIN m.incidents}
    \cup UNION {UNION {{m.timeline[id][i].Actor, m.timeline[id][i].Metadata} :
                          i \in 1..Len(m.timeline[id])} : id \in DOMAIN m.timeline}

\* the heap without the maps that nothing refers to any more
Collect(h, m, hold, r) ==
    LET roots == DOMAIN h \cap (AddrsOfMem(m) \cup hold \cup AddrsOfReturn(r))
        nested == UNION {{h[a][k].ref : k \in DOMAIN h[a]} : a \in roots} \ {NilAddr}
    IN [a \in roots \cup nested |-> h[a]]

\* ------------------------------------------------------------------------
\* Goroutines that call one in-memory provider at once
\* ------------------------------------------------------------------------

Goroutines == 1..MaxGoroutines

\* p.mu when no goroutine holds it
Unlocked == 0

\* a goroutine outside a call: where it is, the call it makes, what it read
\* into local variables (n, inc), the provider as it was when the goroutine
\* took the lock, and what its latest call returned
IdleGo ==
    [pc |-> "idle", op |-> "", id |-> << >>, n |-> 0, inc |-> << >>,
     snap |-> << >>, ret |-> NoReturn]

\* the lock, the goroutines, and how many calls were started, how many
\* Create calls returned and how many AppendTimeline calls returned nil
IdleConc ==
    [mu |-> Unlocked, go |-> [g \in Goroutines |-> IdleGo],
     started |-> 0, created |-> 0, appended |-> 0]

\* the inputs of the goroutines' calls: no maps
GoCreateInput ==
    [Title |-> Str_title, Status |-> Str_open, Severity |-> << >>, Service |-> Str_svc_a,
     Fields |-> NilAddr, Metadata |-> NilAddr]
GoUpdateInput ==
    [Title |-> Ptr(Str_retitled), Status |-> Nil, Severity |-> Nil, Service |-> Nil,
     Fields |-> NilAddr, Metadata |-> NilAddr]
GoAppendInput ==
    [Kind |-> Str_note, Body |-> Str_first, Actor |-> NilAddr, Metadata |-> NilAddr]

\* the statement a call runs first once it holds the lock
FirstStatement(op) ==
    IF op = "Create" THEN "counter_read"
    ELSE IF op \in {"Update", "AppendTimeline"} THEN "lookup"
    ELSE "read"

\* the call as one indivisible step on the provider as it was when the
\* goroutine took the lock
AtOnce(g) ==
    LET m == g.snap.mem
        h == g.snap.heap
    IN IF g.op = "Create" THEN MemCreate(m, h, GoCreateInput)
       ELSE IF g.op = "Update" THEN MemUpdate(m, h, g.id, GoUpdateInput)
       ELSE IF g.op = "AppendTimeline" THEN MemAppendTimeline(m, h, g.id, GoAppendInput)
       ELSE IF g.op = "Get" THEN [mem |-> m, heap |-> h, ret |-> MemGet(m, g.id)]
       ELSE [mem |-> m, heap |-> h, ret |-> MemGetTimeline(m, g.id)]

\* ------------------------------------------------------------------------
\* The plugins (cmd/incidentplugin, cmd/serviceplugin)
\* ------------------------------------------------------------------------

\* A request's config is a map[string]any: each key is absent (Nil) or
\* holds a string (Ptr).

\* parseConfig of the incident provider
parseConfigIncident(raw) ==
    [Source |-> IF raw.source.set /\ raw.source.v # << >> THEN raw.source.v ELSE Str_pagerduty,
     APIToken |-> IF raw.apiToken.set THEN TrimSpace(raw.apiToken.v) ELSE << >>,
     APIURL |-> IF raw.apiURL.set /\ raw.apiURL.v # << >> THEN TrimSpace(raw.apiURL.v)
                ELSE Str_api_pagerduty_com,
     ServiceID |-> IF raw.serviceID.set THEN TrimSpace(raw.serviceID.v) ELSE << >>,
     FromEmail |-> IF raw.fromEmail.set THEN TrimSpace(raw.fromEmail.v) ELSE << >>]

\* parseConfig of the service provider
parseConfigService(raw) ==
    [Source |-> IF raw.source.set /\ raw.source.v # << >> THEN raw.source.v ELSE Str_pagerduty,
     APIToken |-> IF raw.apiToken.set THEN TrimSpace(raw.apiToken.v) ELSE << >>,
     APIURL |-> IF raw.apiURL.set /\ raw.apiURL.v # << >> THEN TrimSpace(raw.apiURL.v)
                ELSE Str_api_pagerduty_com]

\* New of the incident provider: the parsed config, or the error
NewIncidentProvider(raw) ==
    LET parsed == parseConfigIncident(raw) IN
    IF parsed.APIToken = << >> THEN [err |-> "pagerduty apiToken is required", cfg |-> << >>]
    ELSE IF parsed.APIURL = << >> THEN [err |-> "pagerduty apiURL is required", cfg |-> << >>]
    ELSE IF parsed.ServiceID = << >>
    THEN [err |-> "pagerduty serviceID is required", cfg |-> << >>]
    ELSE IF parsed.FromEmail = << >>
    THEN [err |-> "pagerduty fromEmail is required", cfg |-> << >>]
    ELSE [err |-> "", cfg |-> parsed]

\* New of the service provider
NewServiceProvider(raw) ==
    LET parsed == parseConfigService(raw) IN
    IF parsed.APIToken = << >> THEN [err |-> "pagerduty apiToken is required", cfg |-> << >>]
    ELSE IF parsed.APIURL = << >> THEN [err |-> "pagerduty apiURL is required", cfg |-> << >>]
    ELSE [err |-> "", cfg |-> parsed]

\* the package variable provider when it is nil
NoProvider == [n |-> 0, cfg |-> << >>]

\* a plugin process: which binary it is ("" before it is started), the
\* package variable provider, how many providers it has constructed, whether
\* its request loop is running, the config of the latest request and the
\* response written for it
NoResponse == [stage |-> "", error |-> "", by |-> 0]
NotStarted ==
    [kind |-> "", provider |-> NoProvider, built |-> 0, alive |-> FALSE,
     config |-> << >>, resp |-> NoResponse]

\* ensureProvider that constructs a provider for every request
ensureProvider_Rebuild(p, raw) ==
    LET r == IF p.kind = "incident" THEN NewIncidentProvider(raw) ELSE NewServiceProvider(raw)
    IN IF r.err # "" THEN [p |-> p, prov |-> NoProvider, err |-> r.err]
       ELSE LET made == [n |-> p.built + 1, cfg |-> r.cfg]
            IN [p |-> [p EXCEPT !.provider = made, !.built = @ + 1], prov |-> made, err |-> ""]

\* ensureProvider: the cached provider when there is one, else a new one,
\* cached only when New succeeds.  A provider is a pointer: the n-th one
\* constructed is told apart by n.
ensureProvider(p, raw) ==
    IF p.provider # NoProvider THEN [p |-> p, prov |-> p.provider, err |-> ""]
    ELSE LET r == IF p.kind = "incident" THEN NewIncidentProvider(raw)
                  ELSE NewServiceProvider(raw)
         IN IF r.err # "" THEN [p |-> p, prov |-> NoProvider, err |-> r.err]
            ELSE LET made == [n |-> p.built + 1, cfg |-> r.cfg]
                 IN [p |-> [p EXCEPT !.provider = made, !.built = @ + 1],
                     prov |-> made, err |-> ""]

\* the methods each plugin dispatches
PluginMethods(kind) ==
    IF kind = "incident"
    THEN {"incident.query", "incident.list", "incident.get", "incident.create",
          "incident.update", "incident.timeline.get", "incident.timeline.append"}
    ELSE {"service.query"}

\* whether decoding the payload fails: incident.list decodes none,
\* service.query decodes it only when it is not empty, every other method
\* decodes it always, and an empty payload is not JSON
PayloadFails(method, payload) ==
    IF method = "incident.list" THEN FALSE
    ELSE IF method = "service.query" THEN payload = "bad"
    ELSE payload \in {"bad", "empty"}

\* one turn of the request loop that ends the loop when ensureProvider fails
ServeRequest_StopOnError(p, method, raw, payload, callOK) ==
    LET e == ensureProvider(p, raw)
        q == [e.p EXCEPT !.config = raw]
    IN IF e.err # ""
       THEN [q EXCEPT !.resp = [stage |-> "init", error |-> e.err, by |-> 0],
                      !.alive = FALSE]
       ELSE IF method \notin PluginMethods(p.kind)
       THEN [q EXCEPT !.resp = [stage |-> "dispatch", error |-> "unknown method", by |-> 0]]
       ELSE IF PayloadFails(method, payload)
       THEN [q EXCEPT !.resp = [stage |-> "decode", error |-> "decode payload", by |-> 0]]
       ELSE [q EXCEPT !.resp = [stage |-> "call",
                                error |-> IF callOK THEN "" ELSE "provider error",
                                by |-> e.prov.n]]

\* one turn of the request loop for a request that was read and parsed:
\* ensureProvider, then the dispatch on the method, the decoding of the
\* payload and the call on the provider, whose outcome is an input
ServeRequest(p, method, raw, payload, callOK) ==
    LET e == ensureProvider(p, raw)
        q == [e.p EXCEPT !.config = raw]
    IN IF e.err # ""
       THEN [q EXCEPT !.resp = [stage |-> "init", error |-> e.err, by |-> 0]]
       ELSE IF method \notin PluginMethods(p.kind)
       THEN [q EXCEPT !.resp = [stage |-> "dispatch", error |-> "unknown method", by |-> 0]]
       ELSE IF PayloadFails(method, payload)
       THEN [q EXCEPT !.resp = [stage |-> "decode", error |-> "decode payload", by |-> 0]]
       ELSE [q EXCEPT !.resp = [stage |-> "call",
                                error |-> IF callOK THEN "" ELSE "provider error",
                                by |-> e.prov.n]]

\* one turn of the request loop for input that is not a JSON request: the
\* incident plugin writes the error and returns from main, the service
\* plugin writes the error and reads on
ServeMalformed(p) ==
    [p EXCEPT !.resp = [stage |-> "parse", error |-> "parse request", by |-> 0],
              !.config = << >>,
              !.alive = (p.kind = "service")]

\* ------------------------------------------------------------------------
\* State
\* ------------------------------------------------------------------------

VARIABLES
    cfg,    \* the provider's Config (ServiceID, Source)
    run,    \* the Query call in progress
    twin,   \* a second Query call that receives the same responses as run
    varied, \* the query field in which twin's query differs from run's
    lookup, \* a name resolution called on its own
    conv,   \* a mapper or converter function called on its own
    rest,   \* a Get, Create, Update, GetTimeline or AppendTimeline call in progress
    plugin, \* a plugin process: its cached provider and its request loop
    conc,   \* goroutines calling the in-memory provider at once, and its lock p.mu
    mem,    \* the in-memory provider: cfg, nextID, incidents, timeline
    heap,   \* the Go maps alive: address -> keys and values
    held,   \* the addresses of the maps the caller built for its latest write call
    ret,    \* what the latest call on the in-memory provider returned
    budget  \* how many calls the caller has made, and how many changes to held maps

\* the in-memory provider and its caller
memVars == <<mem, heap, held, ret, budget>>

vars == <<cfg, run, twin, varied, lookup, conv, rest, plugin, conc, memVars>>

\* a direct call of a mapper or converter: the function, its argument and
\* what it returned
IdleConv == [pc |-> "idle", fn |-> "", arg |-> << >>, out |-> << >>]

\* a direct call of a Lookup...IDsByName: its arguments, the response to
\* its request, and what it returned
IdleLookup ==
    [pc |-> "idle", kind |-> "", name |-> << >>, resp |-> OKResponse(<< >>),
     ids |-> << >>, err |-> NoError]

Configs == [ServiceID : {Str_DEFAULT_SVC}, Source : {Str_pagerduty}, DefaultSeverity : {Str_critical}]

Init ==
    /\ cfg \in Configs
    /\ run = IdleRun
    /\ twin = IdleRun
    /\ varied = ""
    /\ lookup = IdleLookup
    /\ conv = IdleConv
    /\ rest = IdleRest
    /\ plugin = NotStarted
    /\ conc = IdleConc
    /\ mem = NewMem
    /\ heap = EmptyHeap
    /\ held = {}
    /\ ret = NoReturn
    /\ budget = [calls |-> 0, mutations |-> 0]

\* p.Query(ctx, q) on the incident provider, up to its first network call.
\* The REST providers keep no state between calls (cfg is read-only), so a
\* behaviour follows one call from entry to return.
IncidentQuery(query) ==
    /\ run.pc = "idle"
    /\ rest.pc = "idle"
    /\ run' = BeginIncidentQuery(cfg, query)
    /\ UNCHANGED <<cfg, twin, varied, lookup, conv, rest, plugin, conc, memVars>>

\* p.Query(ctx, q) on the service provider, up to its first network call
ServiceQuery(query) ==
    /\ run.pc = "idle"
    /\ rest.pc = "idle"
    /\ run' = BeginServiceQuery(cfg, query)
    /\ UNCHANGED <<cfg, twin, varied, lookup, conv, rest, plugin, conc, memVars>>

\* the service-name resolution returns and the Query runs on
ServiceLookupReturns(resp) ==
    /\ run.pc = "awaitServiceLookup"
    /\ run' = OnServiceLookup(run, resp)
    /\ UNCHANGED <<cfg, twin, varied, lookup, conv, rest, plugin, conc, memVars>>

\* the team-name resolution returns and the Query runs on
TeamLookupReturns(resp) ==
    /\ run.pc = "awaitTeamLookup"
    /\ run' = OnTeamLookup(run, resp)
    /\ UNCHANGED <<cfg, twin, varied, lookup, conv, rest, plugin, conc, memVars>>

\* the listing call returns and the Query returns
ListReturns(resp) ==
    /\ run.pc = "awaitList"
    /\ run' = OnList(run, resp, cfg)
    /\ UNCHANGED <<cfg, twin, varied, lookup, conv, rest, plugin, conc, memVars>>

Next ==
    \/ \E query \in IncidentQueries : IncidentQuery(query)
    \/ \E query \in ServiceQueries : ServiceQuery(query)
    \/ \E resp \in ServiceLookupResponses : ServiceLookupReturns(resp)
    \/ \E resp \in TeamLookupResponses : TeamLookupReturns(resp)
    \/ \E resp \in (IF run.kind = "incident" THEN IncidentListResponses ELSE ServiceListResponses) :
          ListReturns(resp)

Spec == Init /\ [][Next]_vars

\* ------------------------------------------------------------------------
\* Two Query calls side by side, answered alike
\* ------------------------------------------------------------------------

\* the part of a Query that runs when the pending call returns
Step(r, resp, c) ==
    IF r.pc = "awaitServiceLookup" THEN OnServiceLookup(r, resp)
    ELSE IF r.pc = "awaitTeamLookup" THEN OnTeamLookup(r, resp)
    ELSE IF r.pc = "awaitList" THEN OnList(r, resp, c)
    ELSE r

\* the queries that differ from query in the one field
Variants(query, field) ==
    IF field = "Scope.Environment"
    THEN {[query EXCEPT !.Scope.Environment = e] : e \in EnvironmentNames \ {query.Scope.Environment}}
    ELSE {[query EXCEPT !.Query = t] : t \in QueryTexts \ {query.Query}}

\* two incident Query calls whose queries differ in one field only
TwinIncidentQuery(query, field, other) ==
    /\ run.pc = "idle"
    /\ other \in Variants(query, field)
    /\ run' = BeginIncidentQuery(cfg, query)
    /\ twin' = BeginIncidentQuery(cfg, other)
    /\ varied' = field
    /\ UNCHANGED <<cfg, lookup, conv, rest, plugin, conc, memVars>>

\* two service Query calls whose queries differ in Scope.Environment only
TwinServiceQuery(query, other) ==
    /\ run.pc = "idle"
    /\ other \in Variants(query, "Scope.Environment")
    /\ run' = BeginServiceQuery(cfg, query)
    /\ twin' = BeginServiceQuery(cfg, other)
    /\ varied' = "Scope.Environment"
    /\ UNCHANGED <<cfg, lookup, conv, rest, plugin, conc, memVars>>

\* the responses the pending call of run can get
PendingResponses ==
    IF run.pc = "awaitServiceLookup" THEN ServiceLookupResponses
    ELSE IF run.pc = "awaitTeamLookup" THEN TeamLookupResponses
    ELSE IF run.kind = "incident" THEN IncidentListResponses
    ELSE ServiceListResponses

\* the pending call of both Query calls returns the same response
TwinReturns(resp) ==
    /\ run.pc \in {"awaitServiceLookup", "awaitTeamLookup", "awaitList"}
    /\ run' = Step(run, resp, cfg)
    /\ twin' = Step(twin, resp, cfg)
    /\ UNCHANGED <<cfg, varied, lookup, conv, rest, plugin, conc, memVars>>

NextTwin ==
    \/ \E query \in IncidentQueries, field \in {"Scope.Environment", "Query"} :
          \E other \in Variants(query, field) : TwinIncidentQuery(query, field, other)
    \/ \E query \in ServiceQueries :
          \E other \in Variants(query, "Scope.Environment") : TwinServiceQuery(query, other)
    \/ \E resp \in PendingResponses : TwinReturns(resp)

SpecTwin == Init /\ [][NextTwin]_vars

\* ------------------------------------------------------------------------
\* The name resolver called on its own
\* ------------------------------------------------------------------------

\* largest number of records in the response to a direct resolution
MaxLookupRecords == 3

LookupNames == {Str_production, Str_ProductionAPI, Str_API, Str_platform, Str_nonexistent}

LookupServiceRecords == ServiceRecords
LookupTeamRecords == TeamRecords \cup {[ID |-> Str_TEAM3, Name |-> Str_PlatformInfrastructure]}

\* common.LookupServiceIDsByName(ctx, client, apiURL, apiToken, name)
LookupService(name, resp) ==
    /\ lookup.pc = "idle"
    /\ LET res == LookupServiceIDsByName(resp, name) IN
       lookup' = [pc |-> "done", kind |-> "service", name |-> name, resp |-> resp,
                  ids |-> res.ids, err |-> res.err]
    /\ UNCHANGED <<cfg, run, twin, varied, conv, rest, plugin, conc, memVars>>

\* common.LookupTeamIDsByName(ctx, client, apiURL, apiToken, name)
LookupTeam(name, resp) ==
    /\ lookup.pc = "idle"
    /\ LET res == LookupTeamIDsByName(resp, name) IN
       lookup' = [pc |-> "done", kind |-> "team", name |-> name, resp |-> resp,
                  ids |-> res.ids, err |-> res.err]
    /\ UNCHANGED <<cfg, run, twin, varied, conv, rest, plugin, conc, memVars>>

NextLookup ==
    \/ \E name \in LookupNames :
          \E resp \in FailResponses \cup {OKResponse(items) : items \in BSeq(LookupServiceRecords, MaxLookupRecords)} :
             LookupService(name, resp)
    \/ \E name \in LookupNames :
          \E resp \in FailResponses \cup {OKResponse(items) : items \in BSeq(LookupTeamRecords, MaxLookupRecords)} :
             LookupTeam(name, resp)

SpecLookup == Init /\ [][NextLookup]_vars

\* ------------------------------------------------------------------------
\* The vocabulary mapper and the converters called on their own
\* ------------------------------------------------------------------------

\* strings.ToUpper on one character and on a string; the tests and callers
\* pass the vocabulary in any casing
ToUpperChar(c) ==
    IF \E i \in 1..Len(LowerChars) : LowerChars[i] = c
    THEN UpperChars[CHOOSE i \in 1..Len(LowerChars) : LowerChars[i] = c]
    ELSE c

ToUpper(s) == [i \in 1..Len(s) |-> ToUpperChar(s[i])]

\* the word with its first letter in upper case
Capitalize(s) == IF s = << >> THEN s ELSE <<ToUpperChar(s[1])>> \o Tail(s)

\* the three casings of every word of a set
Casings(words) == UNION {{w, ToUpper(w), Capitalize(w)} : w \in words}

\* the severities of the switch in mapSeverityToUrgency
HighSeverities == {Str_critical, Str_sev1, Str_p1, Str_high, Str_sev2, Str_p2}
LowSeverities == {Str_medium, Str_sev3, Str_p3, Str_low, Str_sev4, Str_p4}
\* severities outside the switch
OtherSeverities == {<< >>, Str_weird, Str_sev5, Str_p0, Str_urgent}
SeverityInputs == Casings(HighSeverities \cup LowSeverities \cup OtherSeverities)

\* the statuses of the switch in mapStatusToPD, and statuses outside it
KnownStatuses ==
    {Str_open, Str_triggered, Str_acknowledged, Str_investigating, Str_resolved, Str_closed}
OtherStatuses == {<< >>, Str_weird, Str_urgent}
StatusInputs == Casings(KnownStatuses \cup OtherStatuses)

\* the urgency and status values of the provider records converted
PDUrgencies == {Str_high, Str_low, ToUpper(Str_high), Capitalize(Str_low), << >>, Str_urgent}
PDStatuses ==
    {Str_triggered, Str_acknowledged, Str_resolved, Capitalize(Str_triggered), << >>, Str_weird}

\* mapSeverityToUrgency(severity)
SeverityToUrgency(severity) ==
    /\ conv.pc = "idle"
    /\ conv' = [pc |-> "done", fn |-> "mapSeverityToUrgency", arg |-> severity,
                out |-> mapSeverityToUrgency(severity)]
    /\ UNCHANGED <<cfg, run, twin, varied, lookup, rest, plugin, conc, memVars>>

\* mapStatusToPD(status)
StatusToPD(status) ==
    /\ conv.pc = "idle"
    /\ conv' = [pc |-> "done", fn |-> "mapStatusToPD", arg |-> status,
                out |-> mapStatusToPD(status)]
    /\ UNCHANGED <<cfg, run, twin, varied, lookup, rest, plugin, conc, memVars>>

\* convertPDIncident(pdInc, p.cfg.Source)
ConvertIncident(pdInc) ==
    /\ conv.pc = "idle"
    /\ conv' = [pc |-> "done", fn |-> "convertPDIncident", arg |-> pdInc,
                out |-> convertPDIncident(pdInc, cfg.Source)]
    /\ UNCHANGED <<cfg, run, twin, varied, lookup, rest, plugin, conc, memVars>>

\* a severity written by Create or Update (as the urgency of the payload)
\* and read back from the record the provider then holds
SeverityRoundTrip(severity) ==
    /\ conv.pc = "idle"
    /\ conv' = [pc |-> "done", fn |-> "roundTrip", arg |-> severity,
                out |-> convertPDIncident(
                            [pdIncident1 EXCEPT !.Urgency = mapSeverityToUrgency(severity)],
                            cfg.Source).Severity]
    /\ UNCHANGED <<cfg, run, twin, varied, lookup, rest, plugin, conc, memVars>>

\* the teams of the service records converted; two of them share a summary
ServiceTeams ==
    {[ID |-> Str_TEAM1, Summary |-> Str_PlatformTeam],
     [ID |-> Str_TEAM2, Summary |-> Str_BackendTeam],
     [ID |-> Str_TEAM3, Summary |-> Str_PlatformTeam]}

\* convertPDService(pdSvc, p.cfg.Source)
ConvertService(pdSvc) ==
    /\ conv.pc = "idle"
    /\ conv' = [pc |-> "done", fn |-> "convertPDService", arg |-> pdSvc,
                out |-> convertPDService(pdSvc, cfg.Source)]
    /\ UNCHANGED <<cfg, run, twin, varied, lookup, rest, plugin, conc, memVars>>

NextConvert ==
    \/ \E severity \in SeverityInputs : SeverityToUrgency(severity)
    \/ \E status \in StatusInputs : StatusToPD(status)
    \/ \E urgency \in PDUrgencies : \E status \in PDStatuses :
          ConvertIncident([pdIncident1 EXCEPT !.Urgency = urgency, !.Status = status])
    \/ \E severity \in SeverityInputs : SeverityRoundTrip(severity)
    \/ \E teams \in BSeq(ServiceTeams, MaxTeams) :
          ConvertService([pdService1 EXCEPT !.Teams = teams])

SpecConvert == Init /\ [][NextConvert]_vars

\* ------------------------------------------------------------------------
\* The REST incident provider: every operation
\* ------------------------------------------------------------------------

IncidentIDs == {Str_INC1, Str_missing}

\* schema.CreateIncidentInput: Body is Fields["body"], absent when Fields is
\* nil or has no such key
CreateInputs ==
    [Title : {Str_Incident1}, Severity : {<< >>, Str_low, Str_sev2},
     Body : {NoBody, BodyOf(Str_details)}]

\* schema.UpdateIncidentInput
UpdateInputs ==
    [Title : {Nil, Ptr(Str_Incident2)}, Status : {Nil, Ptr(Str_closed), Ptr(Str_weird)},
     Severity : {Nil, Ptr(Str_medium)}]

\* schema.TimelineAppendInput
AppendInputs == [Body : {<< >>, Str_note}]

\* the incident object of a JSON response
JSONIncidents ==
    {[ID |-> Str_INC1, IncidentKey |-> Str_KEY1, Title |-> Str_Incident1,
      Status |-> Str_acknowledged, Urgency |-> Str_high,
      Service |-> [ID |-> Str_SVC1, Summary |-> Str_ProductionAPI],
      Body |-> BodyOf(Str_details)],
     [ID |-> Str_INC2, IncidentKey |-> << >>, Title |-> Str_Incident2,
      Status |-> Str_resolved, Urgency |-> Str_low,
      Service |-> [ID |-> Str_SVC2, Summary |-> Str_ProductionDatabase],
      Body |-> NoBody]}

\* the log_entries of a JSON response
JSONLogEntries ==
    {<< >>,
     <<[ID |-> Str_LE1, Type |-> Str_notify, Summary |-> Str_note, Agent |-> Ptr(Str_Alice)],
       [ID |-> Str_LE2, Type |-> Str_annotate, Summary |-> << >>, Agent |-> Nil]>>}

\* status codes the provider can answer with
RestCodes == {200, 201, 204, 404, 500}

\* what client.Do can give an operation
RestResponses ==
    {[t |-> "transport", code |-> 0, body |-> << >>, decodes |-> FALSE,
      incident |-> inc, entries |-> << >>] : inc \in {CHOOSE j \in JSONIncidents : TRUE}}
    \cup
    [t : {"http"}, code : RestCodes, body : {<< >>, Str_not_found}, decodes : BOOLEAN,
     incident : JSONIncidents, entries : JSONLogEntries]

\* p.Get(ctx, id) up to client.Do.  As with Query, a behaviour follows one
\* call of the provider from entry to return.
Get(id) ==
    /\ rest.pc = "idle"
    /\ run.pc = "idle"
    /\ rest' = BeginGet(id)
    /\ UNCHANGED <<cfg, run, twin, varied, lookup, conv, plugin, conc, memVars>>

\* p.Create(ctx, in) up to client.Do
Create(in) ==
    /\ rest.pc = "idle"
    /\ run.pc = "idle"
    /\ rest' = BeginCreate(in, cfg)
    /\ UNCHANGED <<cfg, run, twin, varied, lookup, conv, plugin, conc, memVars>>

\* p.Update(ctx, id, in) up to client.Do
Update(id, in) ==
    /\ rest.pc = "idle"
    /\ run.pc = "idle"
    /\ rest' = BeginUpdate(id, in)
    /\ UNCHANGED <<cfg, run, twin, varied, lookup, conv, plugin, conc, memVars>>

\* p.GetTimeline(ctx, id) up to client.Do
GetTimeline(id) ==
    /\ rest.pc = "idle"
    /\ run.pc = "idle"
    /\ rest' = BeginGetTimeline(id)
    /\ UNCHANGED <<cfg, run, twin, varied, lookup, conv, plugin, conc, memVars>>

\* p.AppendTimeline(ctx, id, entry) up to client.Do
AppendTimeline(id, entry) ==
    /\ rest.pc = "idle"
    /\ run.pc = "idle"
    /\ rest' = BeginAppendTimeline(id, entry)
    /\ UNCHANGED <<cfg, run, twin, varied, lookup, conv, plugin, conc, memVars>>

\* client.Do returns and the operation runs to its return
GetReturns(resp) ==
    /\ rest.pc = "await" /\ rest.op = "Get"
    /\ rest' = OnGet(rest, resp, cfg)
    /\ UNCHANGED <<cfg, run, twin, varied, lookup, conv, plugin, conc, memVars>>

CreateReturns(resp) ==
    /\ rest.pc = "await" /\ rest.op = "Create"
    /\ rest' = OnCreate(rest, resp, cfg)
    /\ UNCHANGED <<cfg, run, twin, varied, lookup, conv, plugin, conc, memVars>>

UpdateReturns(resp) ==
    /\ rest.pc = "await" /\ rest.op = "Update"
    /\ rest' = OnUpdate(rest, resp, cfg)
    /\ UNCHANGED <<cfg, run, twin, varied, lookup, conv, plugin, conc, memVars>>

GetTimelineReturns(resp) ==
    /\ rest.pc = "await" /\ rest.op = "GetTimeline"
    /\ rest' = OnGetTimeline(rest, resp)
    /\ UNCHANGED <<cfg, run, twin, varied, lookup, conv, plugin, conc, memVars>>

AppendTimelineReturns(resp) ==
    /\ rest.pc = "await" /\ rest.op = "AppendTimeline"
    /\ rest' = OnAppendTimeline(rest, resp)
    /\ UNCHANGED <<cfg, run, twin, varied, lookup, conv, plugin, conc, memVars>>

\* one call of any operation of the provider: a Query, as in Next, or one of
\* the single-request operations
NextRest ==
    \/ Next
    \/ \E id \in IncidentIDs : Get(id)
    \/ \E in \in CreateInputs : Create(in)
    \/ \E id \in IncidentIDs : \E in \in UpdateInputs : Update(id, in)
    \/ \E id \in IncidentIDs : GetTimeline(id)
    \/ \E id \in IncidentIDs : \E entry \in AppendInputs : AppendTimeline(id, entry)
    \/ \E resp \in RestResponses : GetReturns(resp)
    \/ \E resp \in RestResponses : CreateReturns(resp)
    \/ \E resp \in RestResponses : UpdateReturns(resp)
    \/ \E resp \in RestResponses : GetTimelineReturns(resp)
    \/ \E resp \in RestResponses : AppendTimelineReturns(resp)

SpecRest == Init /\ [][NextRest]_vars

\* ------------------------------------------------------------------------
\* The in-memory provider and a caller that keeps the maps it passed in
\* ------------------------------------------------------------------------

\* a map argument as the caller writes it: nil, or a literal
NilMap == [isNil |-> TRUE, content |-> EmptyMap]
MapOf(content) == [isNil |-> FALSE, content |-> content]

\* the caller builds the map of an argument before the call
Build(h, m) == IF m.isNil THEN [heap |-> h, addr |-> NilAddr] ELSE NewMap(h, m.content)

\* schema.CreateIncidentInput values of the tests: without maps, and with
\* Fields and Metadata
MemCreateInputs ==
    {[Title |-> Str_title, Status |-> Str_open, Severity |-> << >>, Service |-> Str_svc_a,
      Fields |-> NilMap, Metadata |-> NilMap],
     [Title |-> Str_title, Status |-> Str_open, Severity |-> << >>, Service |-> Str_svc_a,
      Fields |-> MapOf("k" :> MemStr(Str_v)),
      Metadata |-> MapOf("extra" :> MemStr(Str_field))]}

\* schema.UpdateIncidentInput values of the tests: a new title, and new
\* Fields and Metadata
MemUpdateInputs ==
    {[Title |-> Ptr(Str_retitled), Status |-> Nil, Severity |-> Nil, Service |-> Nil,
      Fields |-> NilMap, Metadata |-> NilMap],
     [Title |-> Nil, Status |-> Nil, Severity |-> Nil, Service |-> Nil,
      Fields |-> MapOf("other" :> MemStr(Str_field)),
      Metadata |-> MapOf("meta2" :> MemStr(Str_value))]}

\* schema.TimelineAppendInput values of the tests: without maps, and with
\* Actor and Metadata
MemAppendInputs ==
    {[Kind |-> Str_note, Body |-> Str_first, Actor |-> NilMap, Metadata |-> NilMap],
     [Kind |-> Str_note, Body |-> Str_first,
      Actor |-> MapOf("user" :> MemStr(Str_alice)),
      Metadata |-> MapOf("note" :> MemStr(Str_meta))]}

\* the ids a caller asks for: created ones and one never created
MemIDs == {IncidentID(n) : n \in 1..MaxCalls} \cup {Str_missing}

\* Every operation of the in-memory provider locks p.mu on entry and unlocks
\* it on return, so each call is one step.  A behaviour is a caller making
\* up to MaxCalls calls on one provider and, between them, up to
\* MaxMutations changes to the maps it keeps.

\* prov.Create(ctx, in) with maps the caller has just built and keeps
CallCreate(in) ==
    /\ budget.calls < MaxCalls
    /\ budget' = [budget EXCEPT !.calls = @ + 1]
    /\ LET fields == Build(heap, in.Fields)
           metadata == Build(fields.heap, in.Metadata)
           hold == {fields.addr, metadata.addr} \ {NilAddr}
           res == MemCreate(mem, metadata.heap,
                            [in EXCEPT !.Fields = fields.addr, !.Metadata = metadata.addr])
       IN /\ mem' = res.mem
          /\ held' = hold
          /\ ret' = res.ret
          /\ heap' = Collect(res.heap, res.mem, hold, res.ret)
    /\ UNCHANGED <<cfg, run, twin, varied, lookup, conv, rest, plugin, conc>>

\* prov.Update(ctx, id, in) with maps the caller has just built and keeps
CallUpdate(id, in) ==
    /\ budget.calls < MaxCalls
    /\ budget' = [budget EXCEPT !.calls = @ + 1]
    /\ LET fields == Build(heap, in.Fields)
           metadata == Build(fields.heap, in.Metadata)
           hold == {fields.addr, metadata.addr} \ {NilAddr}
           res == MemUpdate(mem, metadata.heap, id,
                            [in EXCEPT !.Fields = fields.addr, !.Metadata = metadata.addr])
       IN /\ mem' = res.mem
          /\ held' = hold
          /\ ret' = res.ret
          /\ heap' = Collect(res.heap, res.mem, hold, res.ret)
    /\ UNCHANGED <<cfg, run, twin, varied, lookup, conv, rest, plugin, conc>>

\* prov.AppendTimeline(ctx, id, entry) with maps the caller has just built
\* and keeps
CallAppendTimeline(id, entry) ==
    /\ budget.calls < MaxCalls
    /\ budget' = [budget EXCEPT !.calls = @ + 1]
    /\ LET actor == Build(heap, entry.Actor)
           metadata == Build(actor.heap, entry.Metadata)
           hold == {actor.addr, metadata.addr} \ {NilAddr}
           res == MemAppendTimeline(mem, metadata.heap, id,
                            [entry EXCEPT !.Actor = actor.addr, !.Metadata = metadata.addr])
       IN /\ mem' = res.mem
          /\ held' = hold
          /\ ret' = res.ret
          /\ heap' = Collect(res.heap, res.mem, hold, res.ret)
    /\ UNCHANGED <<cfg, run, twin, varied, lookup, conv, rest, plugin, conc>>

\* prov.Get(ctx, id)
CallGet(id) ==
    /\ budget.calls < MaxCalls
    /\ budget' = [budget EXCEPT !.calls = @ + 1]
    /\ ret' = MemGet(mem, id)
    /\ heap' = Collect(heap, mem, held, ret')
    /\ UNCHANGED <<mem, held>>
    /\ UNCHANGED <<cfg, run, twin, varied, lookup, conv, rest, plugin, conc>>

\* prov.GetTimeline(ctx, id)
CallGetTimeline(id) ==
    /\ budget.calls < MaxCalls
    /\ budget' = [budget EXCEPT !.calls = @ + 1]
    /\ ret' = MemGetTimeline(mem, id)
    /\ heap' = Collect(heap, mem, held, ret')
    /\ UNCHANGED <<mem, held>>
    /\ UNCHANGED <<cfg, run, twin, varied, lookup, conv, rest, plugin, conc>>

\* the caller changes or adds a key of a map it passed in: m[key] = "mutated"
CallerSetsKey(a, key) ==
    /\ a \in held
    /\ key \in DOMAIN heap[a] \cup {"added"}
    /\ budget.mutations < MaxMutations
    /\ budget' = [budget EXCEPT !.mutations = @ + 1]
    /\ heap' = [heap EXCEPT ![a] = SetKey(@, key, MemStr(Str_mutated))]
    /\ UNCHANGED <<mem, held, ret>>
    /\ UNCHANGED <<cfg, run, twin, varied, lookup, conv, rest, plugin, conc>>

\* the caller removes a key of a map it passed in: delete(m, key)
CallerDeletesKey(a, key) ==
    /\ a \in held
    /\ key \in DOMAIN heap[a]
    /\ budget.mutations < MaxMutations
    /\ budget' = [budget EXCEPT !.mutations = @ + 1]
    /\ heap' = [heap EXCEPT ![a] = DeleteKey(@, key)]
    /\ UNCHANGED <<mem, held, ret>>
    /\ UNCHANGED <<cfg, run, twin, varied, lookup, conv, rest, plugin, conc>>

\* the keys of the maps of the tests, and the key a caller adds
MemKeys ==
    {"k", "extra", "other", "meta2", "user", "note", "source", "added", "labels", "team"}

\* the addresses maps can have: a call stores at most two maps and its
\* caller holds at most two, each with at most one nested map
Addrs == 1..(6 * MaxCalls)

NextMem ==
    \/ \E in \in MemCreateInputs : CallCreate(in)
    \/ \E id \in MemIDs : \E in \in MemUpdateInputs : CallUpdate(id, in)
    \/ \E id \in MemIDs : \E entry \in MemAppendInputs : CallAppendTimeline(id, entry)
    \/ \E id \in MemIDs : CallGet(id)
    \/ \E id \in MemIDs : CallGetTimeline(id)
    \/ \E a \in Addrs : \E key \in MemKeys : CallerSetsKey(a, key)
    \/ \E a \in Addrs : \E key \in MemKeys : CallerDeletesKey(a, key)

SpecMem == Init /\ [][NextMem]_vars

\* ------------------------------------------------------------------------
\* The in-memory provider and a caller that also keeps nested maps and the
\* maps of returned values
\* ------------------------------------------------------------------------

\* the caller builds map[string]any{"labels": map[string]any{"team": "platform"}}
BuildNested(h) ==
    LET nested == NewMap(h, "team" :> MemStr(Str_platform))
        outer == NewMap(nested.heap, "labels" :> MemMap(nested.addr))
    IN [heap |-> outer.heap, addr |-> outer.addr, nested |-> nested.addr]

\* prov.Create(ctx, in) with a Metadata map that holds a nested map
CallCreateNested ==
    /\ budget.calls < MaxCalls
    /\ budget' = [budget EXCEPT !.calls = @ + 1]
    /\ LET metadata == BuildNested(heap)
           hold == {metadata.addr, metadata.nested}
           res == MemCreate(mem, metadata.heap,
                            [Title |-> Str_title, Status |-> Str_open, Severity |-> << >>,
                             Service |-> Str_svc_a, Fields |-> NilAddr,
                             Metadata |-> metadata.addr])
       IN /\ mem' = res.mem
          /\ held' = hold
          /\ ret' = res.ret
          /\ heap' = Collect(res.heap, res.mem, hold, res.ret)
    /\ UNCHANGED <<cfg, run, twin, varied, lookup, conv, rest, plugin, conc>>

\* prov.Update(ctx, id, in) with a Metadata map that holds a nested map
CallUpdateNested(id) ==
    /\ budget.calls < MaxCalls
    /\ budget' = [budget EXCEPT !.calls = @ + 1]
    /\ LET metadata == BuildNested(heap)
           hold == {metadata.addr, metadata.nested}
           res == MemUpdate(mem, metadata.heap, id,
                            [Title |-> Nil, Status |-> Nil, Severity |-> Nil, Service |-> Nil,
                             Fields |-> NilAddr, Metadata |-> metadata.addr])
       IN /\ mem' = res.mem
          /\ held' = hold
          /\ ret' = res.ret
          /\ heap' = Collect(res.heap, res.mem, hold, res.ret)
    /\ UNCHANGED <<cfg, run, twin, varied, lookup, conv, rest, plugin, conc>>

\* prov.AppendTimeline(ctx, id, entry) with a Metadata map that holds a
\* nested map
CallAppendNested(id) ==
    /\ budget.calls < MaxCalls
    /\ budget' = [budget EXCEPT !.calls = @ + 1]
    /\ LET metadata == BuildNested(heap)
           hold == {metadata.addr, metadata.nested}
           res == MemAppendTimeline(mem, metadata.heap, id,
                            [Kind |-> Str_note, Body |-> Str_first, Actor |-> NilAddr,
                             Metadata |-> metadata.addr])
       IN /\ mem' = res.mem
          /\ held' = hold
          /\ ret' = res.ret
          /\ heap' = Collect(res.heap, res.mem, hold, res.ret)
    /\ UNCHANGED <<cfg, run, twin, varied, lookup, conv, rest, plugin, conc>>

\* the orders in which ranging over the incident map can yield its keys
ListOrders ==
    {o \in BSeq({IncidentID(n) : n \in 1..MaxCalls}, MaxCalls) :
        \A i, j \in 1..Len(o) : i # j => o[i] # o[j]}

\* prov.List(ctx)
CallList(order) ==
    /\ budget.calls < MaxCalls
    /\ Range(order) = DOMAIN mem.incidents
    /\ budget' = [budget EXCEPT !.calls = @ + 1]
    /\ ret' = MemList(mem, order)
    /\ heap' = Collect(heap, mem, held, ret')
    /\ UNCHANGED <<mem, held>>
    /\ UNCHANGED <<cfg, run, twin, varied, lookup, conv, rest, plugin, conc>>

\* the queries of a caller that reads back what it stored
ReadBackQueries == {ZeroQuery, [ZeroQuery EXCEPT !.Statuses = <<Str_open>>, !.Limit = 1]}

\* prov.Query(ctx, q)
CallQuery(q) ==
    /\ budget.calls < MaxCalls
    /\ budget' = [budget EXCEPT !.calls = @ + 1]
    /\ ret' = MemQuery(mem, heap, q)
    /\ heap' = Collect(heap, mem, held, ret')
    /\ UNCHANGED <<mem, held>>
    /\ UNCHANGED <<cfg, run, twin, varied, lookup, conv, rest, plugin, conc>>

\* the caller changes or adds a key of a map of the value the latest call
\* returned: m[key] = "mutated"
CallerSetsReturnedKey(a, key) ==
    /\ a \in AddrsOfReturn(ret) \ {NilAddr}
    /\ key \in DOMAIN heap[a] \cup {"added"}
    /\ budget.mutations < MaxMutations
    /\ budget' = [budget EXCEPT !.mutations = @ + 1]
    /\ heap' = [heap EXCEPT ![a] = SetKey(@, key, MemStr(Str_mutated))]
    /\ UNCHANGED <<mem, held, ret>>
    /\ UNCHANGED <<cfg, run, twin, varied, lookup, conv, rest, plugin, conc>>

\* the caller removes a key of a map of the value the latest call returned
CallerDeletesReturnedKey(a, key) ==
    /\ a \in AddrsOfReturn(ret) \ {NilAddr}
    /\ key \in DOMAIN heap[a]
    /\ budget.mutations < MaxMutations
    /\ budget' = [budget EXCEPT !.mutations = @ + 1]
    /\ heap' = [heap EXCEPT ![a] = DeleteKey(@, key)]
    /\ UNCHANGED <<mem, held, ret>>
    /\ UNCHANGED <<cfg, run, twin, varied, lookup, conv, rest, plugin, conc>>

\* a caller that passes maps holding a nested map and changes the maps
\* it passed
NextNested ==
    \/ CallCreateNested
    \/ \E id \in MemIDs : CallUpdateNested(id)
    \/ \E id \in MemIDs : CallAppendNested(id)
    \/ \E id \in MemIDs : CallGet(id)
    \/ \E id \in MemIDs : CallGetTimeline(id)
    \/ \E a \in Addrs : \E key \in MemKeys : CallerSetsKey(a, key)
    \/ \E a \in Addrs : \E key \in MemKeys : CallerDeletesKey(a, key)

SpecNested == Init /\ [][NextNested]_vars

\* A caller that changes the maps of the values its calls returned.
\* The inputs that carry maps, so that what is stored has maps to return:
WithMaps(inputs) == {in \in inputs : ~in.Metadata.isNil}

NextAlias ==
    \/ \E in \in WithMaps(MemCreateInputs) : CallCreate(in)
    \/ \E id \in MemIDs : \E in \in WithMaps(MemUpdateInputs) : CallUpdate(id, in)
    \/ \E id \in MemIDs : \E entry \in WithMaps(MemAppendInputs) : CallAppendTimeline(id, entry)
    \/ \E id \in MemIDs : CallGet(id)
    \/ \E id \in MemIDs : CallGetTimeline(id)
    \/ \E order \in ListOrders : CallList(order)
    \/ \E q \in ReadBackQueries : CallQuery(q)
    \/ \E a \in Addrs : \E key \in MemKeys : CallerSetsReturnedKey(a, key)
    \/ \E a \in Addrs : \E key \in MemKeys : CallerDeletesReturnedKey(a, key)

SpecAlias == Init /\ [][NextAlias]_vars

\* every map alive has an address of Addrs
HeapWithinAddrs == DOMAIN heap \subseteq Addrs

\* ------------------------------------------------------------------------
\* Queries on an in-memory provider that holds many incidents
\* ------------------------------------------------------------------------

\* the incidents the Query test creates
StoredInputs ==
    {[Title |-> Str_first_incident, Status |-> Str_open, Severity |-> Str_sev2,
      Service |-> Str_svc_a, Fields |-> NilMap,
      Metadata |-> MapOf(("team" :> MemStr(Str_platform)) @@
                         ("environment" :> MemStr(Str_prod)))],
     [Title |-> Str_second_incident, Status |-> Str_closed, Severity |-> Str_sev3,
      Service |-> Str_svc_b, Fields |-> NilMap,
      Metadata |-> MapOf(("team" :> MemStr(Str_sre)) @@
                         ("environment" :> MemStr(Str_staging)))]}

\* the queries of the Query test, the query without a filter, and queries
\* by metadata and by a service name in another spelling
StoredQueries ==
    {ZeroQuery,
     [ZeroQuery EXCEPT !.Limit = 2],
     [ZeroQuery EXCEPT !.Statuses = <<Str_open>>, !.Scope.Service = Str_svc_a, !.Limit = 1],
     [ZeroQuery EXCEPT !.Query = Str_second],
     [ZeroQuery EXCEPT !.Severities = <<Str_sev2, Str_sev1>>,
                       !.Scope.Environment = Str_prod, !.Scope.Team = Str_platform],
     [ZeroQuery EXCEPT !.Metadata = "team" :> MemStr(Str_sre)],
     [ZeroQuery EXCEPT !.Scope.Service = Str_SVC_A_spaced, !.Statuses = <<Str_closed>>]}

\* prov.Create(ctx, in) while fewer than MaxStored incidents are stored;
\* the caller keeps no map
StoreIncident(in) ==
    /\ mem.nextID < MaxStored
    /\ LET fields == Build(heap, in.Fields)
           metadata == Build(fields.heap, in.Metadata)
           res == MemCreate(mem, metadata.heap,
                            [in EXCEPT !.Fields = fields.addr, !.Metadata = metadata.addr])
       IN /\ mem' = res.mem
          /\ ret' = res.ret
          /\ heap' = Collect(res.heap, res.mem, {}, res.ret)
    /\ UNCHANGED <<held, budget>>
    /\ UNCHANGED <<cfg, run, twin, varied, lookup, conv, rest, plugin, conc>>

\* prov.Query(ctx, q)
QueryStored(q) ==
    /\ ret' = MemQuery(mem, heap, q)
    /\ UNCHANGED <<mem, heap, held, budget>>
    /\ UNCHANGED <<cfg, run, twin, varied, lookup, conv, rest, plugin, conc>>

NextQuery ==
    \/ \E in \in StoredInputs : StoreIncident(in)
    \/ \E q \in StoredQueries : QueryStored(q)

SpecQuery == Init /\ [][NextQuery]_vars

\* ------------------------------------------------------------------------
\* Concurrent calls on the in-memory provider
\* ------------------------------------------------------------------------

\* Every method starts with p.mu.Lock() and defers p.mu.Unlock().  A call
\* is a sequence of steps: taking the lock, each read or write of the
\* provider's fields, releasing the lock on return.  Steps of different
\* goroutines interleave in any order.

\* the ids the goroutines ask for
GoIDs == {IncidentID(1)}

\* the calls a goroutine makes
GoOps == {"Create", "Update", "AppendTimeline", "Get", "GetTimeline"}

\* goroutine g calls a method and reaches p.mu.Lock()
GoCall(g, op, id) ==
    /\ conc.go[g].pc = "idle"
    /\ conc.started < MaxOps
    /\ conc' = [conc EXCEPT !.started = @ + 1,
                            !.go[g] = [IdleGo EXCEPT !.pc = "lock", !.op = op, !.id = id]]
    /\ UNCHANGED <<cfg, run, twin, varied, lookup, conv, rest, plugin, memVars>>

\* p.mu.Lock() that does not wait for the lock to be free
Lock_NoWait(g) ==
    /\ conc.go[g].pc = "lock"
    /\ conc' = [conc EXCEPT !.mu = g,
                            !.go[g].pc = FirstStatement(conc.go[g].op),
                            !.go[g].snap = [mem |-> mem, heap |-> heap]]
    /\ UNCHANGED <<cfg, run, twin, varied, lookup, conv, rest, plugin, memVars>>

\* p.mu.Lock(): g goes on once no goroutine holds the lock
Lock(g) ==
    /\ conc.go[g].pc = "lock"
    /\ conc.mu = Unlocked
    /\ conc' = [conc EXCEPT !.mu = g,
                            !.go[g].pc = FirstStatement(conc.go[g].op),
                            !.go[g].snap = [mem |-> mem, heap |-> heap]]
    /\ UNCHANGED <<cfg, run, twin, varied, lookup, conv, rest, plugin, memVars>>

\* Create, p.nextID++: the read of the counter
CreateReadCounter(g) ==
    /\ conc.go[g].pc = "counter_read"
    /\ conc' = [conc EXCEPT !.go[g].n = mem.nextID, !.go[g].pc = "counter_write"]
    /\ UNCHANGED <<cfg, run, twin, varied, lookup, conv, rest, plugin, memVars>>

\* Create, p.nextID++: the write of the counter
CreateWriteCounter(g) ==
    /\ conc.go[g].pc = "counter_write"
    /\ mem' = [mem EXCEPT !.nextID = conc.go[g].n + 1]
    /\ conc' = [conc EXCEPT !.go[g].pc = "store"]
    /\ UNCHANGED <<heap, held, ret, budget>>
    /\ UNCHANGED <<cfg, run, twin, varied, lookup, conv, rest, plugin>>

\* Create, from id := fmt.Sprintf("pd-%d", p.nextID) to p.incidents[id] =
\* incident: the rest of Create with the counter as it is now
CreateStore(g) ==
    /\ conc.go[g].pc = "store"
    /\ conc.go[g].op = "Create"
    /\ LET res == MemCreate([mem EXCEPT !.nextID = @ - 1], heap, GoCreateInput)
       IN /\ mem' = res.mem
          /\ heap' = res.heap
          /\ conc' = [conc EXCEPT !.go[g].ret = res.ret, !.go[g].pc = "unlock"]
    /\ UNCHANGED <<held, ret, budget>>
    /\ UNCHANGED <<cfg, run, twin, varied, lookup, conv, rest, plugin>>

\* Update and AppendTimeline, the lookup of id in p.incidents: the return
\* of errNotFound, or for Update the copy inc of the stored incident
Lookup(g) ==
    /\ conc.go[g].pc = "lookup"
    /\ conc' = IF conc.go[g].id \notin DOMAIN mem.incidents
               THEN [conc EXCEPT !.go[g].ret = [op |-> conc.go[g].op, err |-> errNotFound,
                                                val |-> << >>],
                                 !.go[g].pc = "unlock"]
               ELSE IF conc.go[g].op = "Update"
               THEN [conc EXCEPT !.go[g].inc = mem.incidents[conc.go[g].id],
                                 !.go[g].pc = "store"]
               ELSE [conc EXCEPT !.go[g].pc = "length"]
    /\ UNCHANGED <<cfg, run, twin, varied, lookup, conv, rest, plugin, memVars>>

\* Update, from the assignments to inc to p.incidents[id] = inc: the rest
\* of Update on the copy read before
UpdateStore(g) ==
    /\ conc.go[g].pc = "store"
    /\ conc.go[g].op = "Update"
    /\ LET res == MemUpdate([mem EXCEPT !.incidents[conc.go[g].id] = conc.go[g].inc],
                            heap, conc.go[g].id, GoUpdateInput)
       IN /\ mem' = res.mem
          /\ heap' = res.heap
          /\ conc' = [conc EXCEPT !.go[g].ret = res.ret, !.go[g].pc = "unlock"]
    /\ UNCHANGED <<held, ret, budget>>
    /\ UNCHANGED <<cfg, run, twin, varied, lookup, conv, rest, plugin>>

\* AppendTimeline, n := len(p.timeline[id]) + 1
AppendReadLength(g) ==
    /\ conc.go[g].pc = "length"
    /\ conc' = [conc EXCEPT !.go[g].n = Len(MemGetTimeline(mem, conc.go[g].id).val) + 1,
                            !.go[g].pc = "append"]
    /\ UNCHANGED <<cfg, run, twin, varied, lookup, conv, rest, plugin, memVars>>

\* AppendTimeline, p.timeline[id] = append(p.timeline[id], entry) with the
\* entry's ID made from n
AppendStore(g) ==
    /\ conc.go[g].pc = "append"
    /\ LET id == conc.go[g].id
           stored == [ID |-> EntryID(id, conc.go[g].n), IncidentID |-> id,
                      Kind |-> GoAppendInput.Kind, Body |-> GoAppendInput.Body,
                      Actor |-> NilAddr, Metadata |-> NilAddr]
       IN mem' = [mem EXCEPT !.timeline = [i \in DOMAIN @ \cup {id} |->
                                IF i = id THEN Append(MemGetTimeline(mem, id).val, stored)
                                ELSE @[i]]]
    /\ conc' = [conc EXCEPT !.go[g].ret = [op |-> "AppendTimeline", err |-> NoError,
                                           val |-> << >>],
                            !.go[g].pc = "unlock"]
    /\ UNCHANGED <<heap, held, ret, budget>>
    /\ UNCHANGED <<cfg, run, twin, varied, lookup, conv, rest, plugin>>

\* Get and GetTimeline: the read of the stored incident or timeline
Read(g) ==
    /\ conc.go[g].pc = "read"
    /\ conc' = [conc EXCEPT !.go[g].ret = IF conc.go[g].op = "Get"
                                          THEN MemGet(mem, conc.go[g].id)
                                          ELSE MemGetTimeline(mem, conc.go[g].id),
                            !.go[g].pc = "unlock"]
    /\ UNCHANGED <<cfg, run, twin, varied, lookup, conv, rest, plugin, memVars>>

\* the deferred p.mu.Unlock() and the return to the caller
Unlock(g) ==
    /\ conc.go[g].pc = "unlock"
    /\ conc' = [conc EXCEPT
                  !.mu = Unlocked,
                  !.go[g].pc = "idle",
                  !.created = IF conc.go[g].op = "Create" THEN @ + 1 ELSE @,
                  !.appended = IF conc.go[g].op = "AppendTimeline"
                                  /\ conc.go[g].ret.err = NoError THEN @ + 1 ELSE @]
    /\ UNCHANGED <<cfg, run, twin, varied, lookup, conv, rest, plugin, memVars>>

NextConc ==
    \/ \E g \in Goroutines : \E op \in GoOps : \E id \in GoIDs : GoCall(g, op, id)
    \/ \E g \in Goroutines : Lock(g)
    \/ \E g \in Goroutines : CreateReadCounter(g)
    \/ \E g \in Goroutines : CreateWriteCounter(g)
    \/ \E g \in Goroutines : CreateStore(g)
    \/ \E g \in Goroutines : Lookup(g)
    \/ \E g \in Goroutines : UpdateStore(g)
    \/ \E g \in Goroutines : AppendReadLength(g)
    \/ \E g \in Goroutines : AppendStore(g)
    \/ \E g \in Goroutines : Read(g)
    \/ \E g \in Goroutines : Unlock(g)

SpecConc == Init /\ [][NextConc]_vars

\* ------------------------------------------------------------------------
\* A plugin process and the requests it reads
\* ------------------------------------------------------------------------

\* the configs of requests: with every credential, with some missing or
\* blank, with another source
PluginConfigs ==
    [source : {Ptr(Str_demo), Ptr(Str_other)},
     apiToken : {Nil, Ptr(Str_token), Ptr(Str_blank)},
     apiURL : {Nil, Ptr(Str_blank)},
     serviceID : {Nil, Ptr(Str_PXXXXXX)},
     fromEmail : {Nil, Ptr(Str_user_example_com)}]

\* the methods of requests: some of each plugin and one of neither
RequestMethods ==
    {"incident.list", "incident.get", "incident.create", "service.query", "bogus"}

\* the payloads of requests: none, a JSON document, not JSON
RequestPayloads == {"empty", "ok", "bad"}

\* the process starts: provider is nil and the loop reads its input
PluginStart(kind) ==
    /\ plugin.kind = ""
    /\ plugin' = [NotStarted EXCEPT !.kind = kind, !.alive = TRUE]
    /\ UNCHANGED <<cfg, run, twin, varied, lookup, conv, rest, conc, memVars>>

\* the loop reads a request and answers it
HandleRequest(method, raw, payload, callOK) ==
    /\ plugin.alive
    /\ plugin' = ServeRequest(plugin, method, raw, payload, callOK)
    /\ UNCHANGED <<cfg, run, twin, varied, lookup, conv, rest, conc, memVars>>

\* the loop reads input that is not a JSON request
HandleMalformed ==
    /\ plugin.alive
    /\ plugin' = ServeMalformed(plugin)
    /\ UNCHANGED <<cfg, run, twin, varied, lookup, conv, rest, conc, memVars>>

\* the loop reaches the end of its input
EndOfInput ==
    /\ plugin.alive
    /\ plugin' = [plugin EXCEPT !.alive = FALSE]
    /\ UNCHANGED <<cfg, run, twin, varied, lookup, conv, rest, conc, memVars>>

NextPlugin ==
    \/ \E kind \in {"incident", "service"} : PluginStart(kind)
    \/ \E method \in RequestMethods : \E raw \in PluginConfigs :
         \E payload \in RequestPayloads : \E callOK \in BOOLEAN :
            HandleRequest(method, raw, payload, callOK)
    \/ HandleMalformed
    \/ EndOfInput

SpecPlugin == Init /\ [][NextPlugin]_vars

\* ------------------------------------------------------------------------
\* Reading a Query call
\* ------------------------------------------------------------------------

\* the call has issued its listing request
HasListing(r) == \E i \in 1..Len(r.calls) : r.calls[i].what = "list"

\* the filter set as the provider's API reads it off the listing request
Sent(r) == ParseQuery(r.calls[CHOOSE i \in 1..Len(r.calls) : r.calls[i].what = "list"].req.rawQuery)

\* the values of a parameter, none when the parameter is absent
ValuesOf(v, key) == IF key \in DOMAIN v THEN v[key] ELSE << >>

\* the statements that issued the calls, in order
Whats(r) == [i \in 1..Len(r.calls) |-> r.calls[i].what]

\* the i-th call got no response (transport error, cancelled context), a
\* non-200 response, or a 200 response whose body is not the expected JSON
FailedAnswer(r, i) ==
    \/ r.answers[i].t # "http"
    \/ r.answers[i].code # 200
    \/ ~r.answers[i].decodes

IsPrefix(s, t) == Len(s) <= Len(t) /\ SubSeq(t, 1, Len(s)) = s

\* strconv.Atoi on a decimal numeral, used to read the limit parameter back
RECURSIVE AtoiNat(_)
AtoiNat(s) ==
    IF s = << >> THEN 0
    ELSE 10 * AtoiNat(SubSeq(s, 1, Len(s) - 1))
         + (CHOOSE d \in 0..9 : DigitChars[d + 1] = s[Len(s)])

Atoi(s) == IF s # << >> /\ Head(s) = "-" THEN 0 - AtoiNat(Tail(s)) ELSE AtoiNat(s)

\* ------------------------------------------------------------------------
\* C1..C10
\* ------------------------------------------------------------------------

\* the raw query of the listing request the same incident query sends when
\* its Scope.Service is empty and its team resolution returns the same IDs
UnscopedRawQuery(r) ==
    Encode(WithIncidentMetadata(
               WithTeamIDs(WithSeverities(WithStatuses(WithLimit(EmptyValues, r.q), r.q), r.q), r.teamIDs),
               r.q))

\* C1: when Scope.Service is non-empty, its resolution succeeded with zero IDs
\* and the metadata has no service_id, the listing request carries the
\* service_ids[] parameter and differs from the request of the same query
\* with Scope.Service empty.
C1_ZeroIDsFilterPresent ==
    (/\ run.kind = "incident"
     /\ HasListing(run)
     /\ run.q.Scope.Service # << >>
     /\ run.serviceIDs = << >>
     /\ "service_id" \notin DOMAIN run.q.Metadata)
    => /\ "service_ids[]" \in DOMAIN Sent(run)
       /\ run.calls[Len(run.calls)].req.rawQuery # UnscopedRawQuery(run)

\* the list holding a metadata value when the key holds a string of any length
MetaIfString(meta, key) ==
    IF key \in DOMAIN meta /\ meta[key].isString THEN <<meta[key].s>> ELSE << >>

\* the list holding a metadata value when the key holds a non-empty string
MetaIfNonEmptyString(meta, key) ==
    IF key \in DOMAIN meta /\ meta[key].isString /\ Len(meta[key].s) > 0 THEN <<meta[key].s>> ELSE << >>

\* C2 as stated: service_ids[] is the resolved service IDs followed by
\* Metadata["service_id"] whenever that is a string, and team_ids[] is the
\* resolved team IDs followed by Metadata["team_id"] whenever that is a string.
C2_Original ==
    HasListing(run) =>
        /\ run.kind = "incident" =>
              ValuesOf(Sent(run), "service_ids[]")
                  = run.serviceIDs \o MetaIfString(run.q.Metadata, "service_id")
        /\ ValuesOf(Sent(run), "team_ids[]")
              = run.teamIDs \o MetaIfString(run.q.Metadata, "team_id")

\* C2 amended: service_ids[] is the resolved service IDs, in the order
\* received, followed by Metadata["service_id"] when that is a non-empty
\* string, and team_ids[] is the resolved team IDs followed by
\* Metadata["team_id"] when that is a non-empty string; the metadata value
\* never replaces a resolved ID.
C2_MetadataAdditive ==
    HasListing(run) =>
        /\ run.kind = "incident" =>
              ValuesOf(Sent(run), "service_ids[]")
                  = run.serviceIDs \o MetaIfNonEmptyString(run.q.Metadata, "service_id")
        /\ ValuesOf(Sent(run), "team_ids[]")
              = run.teamIDs \o MetaIfNonEmptyString(run.q.Metadata, "team_id")

\* a listing request with team_ids[] = [TEAM1, TEAM2]: TEAM1 resolved from
\* Scope.Team, TEAM2 given in the metadata
C2_Witness ==
    /\ run.kind = "incident"
    /\ HasListing(run)
    /\ run.teamIDs = <<Str_TEAM1>>
    /\ "team_id" \in DOMAIN run.q.Metadata
    /\ run.q.Metadata["team_id"] = MString(Str_TEAM2)
    /\ ValuesOf(Sent(run), "team_ids[]") = <<Str_TEAM1, Str_TEAM2>>

\* C3: a value is in service_ids[] of the listing request only if it was
\* resolved from Scope.Service or given in Metadata["service_id"], and a query
\* with no scope and no metadata sends no service_ids[] at all, whatever
\* ServiceID is configured.
C3_NoDefaultService ==
    (run.kind = "incident" /\ HasListing(run)) =>
        /\ Range(ValuesOf(Sent(run), "service_ids[]"))
              \subseteq (Range(run.serviceIDs) \cup Range(MetaIfString(run.q.Metadata, "service_id")))
        /\ (/\ run.q.Scope = ZeroQuery.Scope
            /\ run.q.Metadata = EmptyMeta)
           => "service_ids[]" \notin DOMAIN Sent(run)

\* a listing request of a query without scope and metadata, under a
\* configuration that holds a ServiceID
C3_Witness ==
    /\ run.kind = "incident"
    /\ HasListing(run)
    /\ run.q.Scope = ZeroQuery.Scope
    /\ run.q.Metadata = EmptyMeta
    /\ cfg.ServiceID # << >>
    /\ run.pc = "done"

\* C4: when a name resolution gets no response (transport error, cancelled
\* context), a non-200 response or an undecodable body, the Query has
\* returned an error and no list, has issued no listing request, and has issued no call after the
\* failed one (so no team resolution after a failed service resolution).
C4_LookupFailureFailsQuery ==
    \A i \in 1..Len(run.answers) :
        (run.calls[i].what \in {"lookupService", "lookupTeam"} /\ FailedAnswer(run, i))
        => /\ run.pc = "done"
           /\ run.err # NoError
           /\ run.out = << >>
           /\ ~HasListing(run)
           /\ Len(run.calls) = i

\* a Query with both scopes whose service resolution was cancelled
C4_Witness ==
    /\ run.kind = "incident"
    /\ run.q.Scope.Service # << >>
    /\ run.q.Scope.Team # << >>
    /\ Len(run.answers) = 1
    /\ run.answers[1].t = "context canceled"
    /\ run.pc = "done"

\* the calls of an incident query when nothing fails
ExpectedCalls(query) ==
    (IF query.Scope.Service # << >> THEN <<"lookupService">> ELSE << >>)
    \o (IF query.Scope.Team # << >> THEN <<"lookupTeam">> ELSE << >>)
    \o <<"list">>

\* C5 as stated: a returned incident Query has issued the service resolution
\* iff Scope.Service is non-empty, then the team resolution iff Scope.Team is
\* non-empty, then exactly one listing call.
C5_Original ==
    (run.kind = "incident" /\ run.pc = "done") => Whats(run) = ExpectedCalls(run.q)

\* C5 amended: the calls of an incident Query are, in this order, the service
\* resolution (iff Scope.Service is non-empty), the team resolution (iff
\* Scope.Team is non-empty and no service resolution failed) and one listing
\* call (iff no resolution failed); a Query whose resolution fails stops at
\* the failed call.  Every resolution is issued at most once and before the
\* listing call.
C5_CallOrder ==
    run.kind = "incident" =>
        /\ IsPrefix(Whats(run), ExpectedCalls(run.q))
        /\ Len(run.calls) >= 1
        /\ run.pc = "done" =>
              IF \E i \in 1..Len(run.answers) : run.calls[i].what # "list" /\ FailedAnswer(run, i)
              THEN /\ Len(run.answers) = Len(run.calls)
                   /\ run.calls[Len(run.calls)].what # "list"
                   /\ FailedAnswer(run, Len(run.calls))
                   /\ \A i \in 1..(Len(run.calls) - 1) : ~FailedAnswer(run, i)
              ELSE Whats(run) = ExpectedCalls(run.q)

\* a returned Query that issued both resolutions and then the listing call
C5_Witness ==
    /\ run.kind = "incident"
    /\ run.pc = "done"
    /\ Whats(run) = <<"lookupService", "lookupTeam", "list">>

\* C6: statuses[] is the element-by-element image of Statuses under
\* mapStatusToPD and urgencies[] that of Severities under
\* mapSeverityToUrgency, same order, same length, duplicates kept; an empty
\* list adds no parameter.
C6_ListsMapped ==
    (run.kind = "incident" /\ HasListing(run)) =>
        LET st == ValuesOf(Sent(run), "statuses[]")
            ur == ValuesOf(Sent(run), "urgencies[]")
        IN /\ Len(st) = Len(run.q.Statuses)
           /\ \A i \in 1..Len(st) : st[i] = mapStatusToPD(run.q.Statuses[i])
           /\ Len(ur) = Len(run.q.Severities)
           /\ \A i \in 1..Len(ur) : ur[i] = mapSeverityToUrgency(run.q.Severities[i])
           /\ ("statuses[]" \in DOMAIN Sent(run)) = (run.q.Statuses # << >>)
           /\ ("urgencies[]" \in DOMAIN Sent(run)) = (run.q.Severities # << >>)
           /\ run.q.Severities = <<Str_critical, Str_high>> => ur = <<Str_high, Str_high>>
           /\ run.q.Statuses = <<Str_open, Str_acknowledged>> => st = <<Str_triggered, Str_acknowledged>>

\* the listing request of {Statuses: [open, acknowledged], Severities:
\* [critical, high], Limit: 20}
C6_Witness ==
    /\ run.kind = "incident"
    /\ HasListing(run)
    /\ run.q.Statuses = <<Str_open, Str_acknowledged>>
    /\ run.q.Severities = <<Str_critical, Str_high>>
    /\ run.q.Limit = 20
    /\ ValuesOf(Sent(run), "urgencies[]") = <<Str_high, Str_high>>
    /\ ValuesOf(Sent(run), "limit") = <<<<"2", "0">>>>

\* C7: the filter set of an incident or service query carries exactly one
\* limit value: the query's Limit when it is positive, 100 otherwise.
C7_OneLimit ==
    /\ run.pc # "idle" =>
          /\ "limit" \in DOMAIN run.params
          /\ Len(run.params["limit"]) = 1
          /\ Atoi(run.params["limit"][1]) = (IF run.q.Limit > 0 THEN run.q.Limit ELSE 100)
    /\ HasListing(run) =>
          /\ Len(ValuesOf(Sent(run), "limit")) = 1
          /\ Atoi(ValuesOf(Sent(run), "limit")[1]) = (IF run.q.Limit > 0 THEN run.q.Limit ELSE 100)

\* a listing request of a service query with a negative Limit
C7_Witness ==
    /\ run.kind = "service"
    /\ HasListing(run)
    /\ run.q.Limit < 0
    /\ ValuesOf(Sent(run), "limit") = <<Str_100>>

\* the two Query calls are at the same point, have issued the same requests
\* and have returned the same error and list
SameCourse(a, b) ==
    /\ a.pc = b.pc
    /\ a.calls = b.calls
    /\ a.err = b.err
    /\ a.out = b.out

C9_EnvironmentIgnored ==
    /\ varied = "Scope.Environment" =>
          /\ run.q.Scope.Environment # twin.q.Scope.Environment
          /\ SameCourse(run, twin)
          /\ run.params = twin.params
    /\ run.err # NoError => \E i \in 1..Len(run.answers) : FailedAnswer(run, i)

\* a query with Scope.Environment = "prod" and Scope.Team set returned
\* without error beside its twin with no environment
C9_Witness ==
    /\ varied = "Scope.Environment"
    /\ run.q.Scope.Environment = Str_prod
    /\ twin.q.Scope.Environment = << >>
    /\ run.q.Scope.Team # << >>
    /\ run.pc = "done"
    /\ run.err = NoError
    /\ HasListing(run)

\* the positions of the records whose lower-cased name contains the
\* lower-cased name asked for
MatchingPositions(records, name) ==
    {i \in 1..Len(records) : Contains(ToLower(records[i].Name), ToLower(name))}

\* C10: a name resolution whose request succeeded returns no error and the
\* IDs of exactly the records whose lower-cased name contains the lower-cased
\* query name, in the order received (none when nothing matches); "production"
\* against Production API, Production Database, Staging API gives the first
\* two IDs.
C10_SubstringMatch ==
    (/\ lookup.pc = "done"
     /\ lookup.resp.t = "http"
     /\ lookup.resp.code = 200
     /\ lookup.resp.decodes)
    => LET recs == lookup.resp.items
           pos == MatchingPositions(recs, lookup.name)
       IN /\ lookup.err = NoError
          /\ Len(lookup.ids) = Cardinality(pos)
          /\ \A i \in pos : lookup.ids[Cardinality({j \in pos : j <= i})] = recs[i].ID
          /\ (lookup.name = Str_production
              /\ [i \in 1..Len(recs) |-> recs[i].Name]
                    = <<Str_ProductionAPI, Str_ProductionDatabase, Str_StagingAPI>>)
             => lookup.ids = <<Str_SVC1, Str_SVC2>>
          /\ lookup.name = Str_nonexistent => lookup.ids = << >>

\* "production" resolved against Production API, Production Database and
\* Staging API
C10_Witness ==
    /\ lookup.pc = "done"
    /\ lookup.kind = "service"
    /\ lookup.name = Str_production
    /\ lookup.err = NoError
    /\ Len(lookup.resp.items) = 3
    /\ [i \in 1..3 |-> lookup.resp.items[i].Name]
          = <<Str_ProductionAPI, Str_ProductionDatabase, Str_StagingAPI>>
    /\ lookup.ids = <<Str_SVC1, Str_SVC2>>

\* C11: mapSeverityToUrgency returns "high" for critical, sev1, p1, high,
\* sev2, p2 and "low" for medium, sev3, p3, low, sev4, p4 in any casing, and
\* "high" for every other string, the empty one included; its result is
\* always one of the two.
C11_SeverityToUrgency ==
    (conv.pc = "done" /\ conv.fn = "mapSeverityToUrgency") =>
       /\ conv.out \in {Str_high, Str_low}
       /\ conv.out = (IF conv.arg \in Casings({Str_critical, Str_sev1, Str_p1,
                                               Str_high, Str_sev2, Str_p2})
                      THEN Str_high
                      ELSE IF conv.arg \in Casings({Str_medium, Str_sev3, Str_p3,
                                                    Str_low, Str_sev4, Str_p4})
                      THEN Str_low
                      ELSE Str_high)

\* "SEV3" was mapped to "low"
C11_Witness ==
    /\ conv.pc = "done"
    /\ conv.fn = "mapSeverityToUrgency"
    /\ conv.arg = <<"S", "E", "V", "3">>
    /\ conv.out = Str_low

\* C12: mapStatusToPD returns triggered for open and triggered, acknowledged
\* for acknowledged and investigating, resolved for resolved and closed, in
\* any casing, and every other status exactly as it was given.
C12_StatusToPD ==
    (conv.pc = "done" /\ conv.fn = "mapStatusToPD") =>
       conv.out = (IF conv.arg \in Casings({Str_open, Str_triggered}) THEN Str_triggered
                   ELSE IF conv.arg \in Casings({Str_acknowledged, Str_investigating})
                   THEN Str_acknowledged
                   ELSE IF conv.arg \in Casings({Str_resolved, Str_closed}) THEN Str_resolved
                   ELSE conv.arg)

\* "Weird" came back as "Weird"
C12_Witness ==
    /\ conv.pc = "done"
    /\ conv.fn = "mapStatusToPD"
    /\ conv.arg = <<"W", "e", "i", "r", "d">>
    /\ conv.out = <<"W", "e", "i", "r", "d">>

\* a severity read back after a write is one of critical and medium
ReadBackCollapses ==
    (conv.pc = "done" /\ conv.fn = "roundTrip") => conv.out \in {Str_critical, Str_medium}

\* C13 as stated: the converted Severity is critical when the record's
\* urgency is the string "high" and medium for every other urgency; the
\* converted Status is open, acknowledged, resolved for the strings triggered,
\* acknowledged, resolved and the record's status for every other string.
C13_Original ==
    /\ (conv.pc = "done" /\ conv.fn = "convertPDIncident") =>
          /\ conv.out.Severity = (IF conv.arg.Urgency = Str_high THEN Str_critical ELSE Str_medium)
          /\ conv.out.Status = (IF conv.arg.Status = Str_triggered THEN Str_open
                                ELSE conv.arg.Status)
    /\ ReadBackCollapses

\* C13: the converted Severity is critical when the record's urgency,
\* lower-cased, is "high" and medium otherwise; the converted Status is open
\* when the record's status, lower-cased, is triggered, the lower-case word
\* for acknowledged and resolved, and the record's own string otherwise; a
\* severity read back after a write is critical or medium.
C13_ConvertVocabulary ==
    /\ (conv.pc = "done" /\ conv.fn = "convertPDIncident") =>
          /\ conv.out.Severity = (IF ToLower(conv.arg.Urgency) = Str_high
                                  THEN Str_critical ELSE Str_medium)
          /\ conv.out.Status = (IF ToLower(conv.arg.Status) = Str_triggered THEN Str_open
                                ELSE IF ToLower(conv.arg.Status) \in {Str_acknowledged, Str_resolved}
                                THEN ToLower(conv.arg.Status)
                                ELSE conv.arg.Status)
    /\ ReadBackCollapses

\* a record with urgency "HIGH" and status "Triggered" was converted to
\* severity critical and status open
C13_Witness ==
    /\ conv.pc = "done"
    /\ conv.fn = "convertPDIncident"
    /\ conv.arg.Urgency = <<"H", "I", "G", "H">>
    /\ conv.arg.Status = <<"T", "r", "i", "g", "g", "e", "r", "e", "d">>
    /\ conv.out.Severity = Str_critical
    /\ conv.out.Status = Str_open

\* the parameters an incident listing request can carry
IncidentParams ==
    {"limit", "statuses[]", "urgencies[]", "service_ids[]", "team_ids[]", "incident_key"}

\* C14 as stated: the listing request of an incident query holds the one
\* incident_key value Metadata["incident_key"] whenever that is a string, and
\* no incident_key otherwise.
C14_Original ==
    (run.kind = "incident" /\ HasListing(run)) =>
        ValuesOf(Sent(run), "incident_key") = MetaIfString(run.q.Metadata, "incident_key")

\* C14: the listing request of an incident query holds at most one
\* incident_key value, equal to Metadata["incident_key"] when that is a
\* non-empty string, and no incident_key otherwise; a metadata key other than
\* service_id, team_id and incident_key adds no parameter, and metadata
\* causes no error.
C14_IncidentKey ==
    /\ (run.kind = "incident" /\ HasListing(run)) =>
          /\ Len(ValuesOf(Sent(run), "incident_key")) <= 1
          /\ ValuesOf(Sent(run), "incident_key")
                = MetaIfNonEmptyString(run.q.Metadata, "incident_key")
          /\ DOMAIN Sent(run) \subseteq IncidentParams
          /\ (DOMAIN run.q.Metadata \cap {"service_id", "team_id", "incident_key"} = {})
             => /\ ValuesOf(Sent(run), "service_ids[]") = run.serviceIDs
                /\ ValuesOf(Sent(run), "team_ids[]") = run.teamIDs
                /\ "incident_key" \notin DOMAIN Sent(run)
    /\ (run.kind = "incident" /\ run.err # NoError) =>
          \E i \in 1..Len(run.answers) : FailedAnswer(run, i)

\* a listing request with incident_key = KEY1 taken from the metadata
C14_Witness ==
    /\ run.kind = "incident"
    /\ HasListing(run)
    /\ "incident_key" \in DOMAIN run.q.Metadata
    /\ run.q.Metadata["incident_key"] = MString(Str_KEY1)
    /\ ValuesOf(Sent(run), "incident_key") = <<Str_KEY1>>

NotFoundOps == {"Get", "Update", "AppendTimeline"}

\* C16: Get, Update and AppendTimeline return errNotFound exactly when the
\* provider answered 404; a Query whose listing succeeded with zero records
\* returns an empty list and no error, and no Query returns errNotFound.
C16_NotFound ==
    /\ (rest.pc = "done" /\ rest.op \in NotFoundOps) =>
          (rest.err = errNotFound
              <=> (rest.answers[1].t = "http" /\ rest.answers[1].code = 404))
    /\ errNotFound \notin {NoError, DecodeError}
    /\ errNotFound.code = 0
    /\ (run.pc = "done" /\ HasListing(run) /\ ~FailedAnswer(run, Len(run.answers))
        /\ run.listed = << >>)
       => (run.err = NoError /\ run.out = << >>)
    /\ run.err # errNotFound

\* Update of the id "missing" was answered 404 and returned errNotFound
C16_Witness ==
    /\ rest.pc = "done"
    /\ rest.op = "Update"
    /\ rest.id = Str_missing
    /\ rest.answers[1].code = 404
    /\ rest.err = errNotFound

\* C17: an operation answered with a status outside 200..299, the 404 of
\* Get, Update and AppendTimeline aside, returns an error holding that status
\* code and the response body; the failed call is the operation's last, every
\* operation has returned after it, and no request is issued twice.
C17_TransportError ==
    /\ (/\ rest.pc = "done"
        /\ rest.answers[1].t = "http"
        /\ rest.answers[1].code \notin 200..299
        /\ ~(rest.answers[1].code = 404 /\ rest.op \in NotFoundOps))
       => /\ rest.err.cause = "pagerduty api error"
          /\ rest.err.code = rest.answers[1].code
          /\ rest.err.body = rest.answers[1].body
    /\ Len(rest.calls) <= 1
    /\ Len(rest.answers) <= Len(rest.calls)
    /\ \A i \in 1..Len(run.answers) :
          (run.answers[i].t = "http" /\ run.answers[i].code \notin 200..299)
          => /\ run.pc = "done"
             /\ i = Len(run.calls)
             /\ run.err.cause = "pagerduty api error"
             /\ run.err.code = run.answers[i].code
             /\ run.err.body = run.answers[i].body
    /\ Len(run.answers) <= Len(run.calls)
    /\ \A i, j \in 1..Len(run.calls) : run.calls[i].what = run.calls[j].what => i = j

\* Create was answered 404 with the body "not found" and returned an error
\* holding both
C17_Witness ==
    /\ rest.pc = "done"
    /\ rest.op = "Create"
    /\ Len(rest.calls) = 1
    /\ rest.answers[1].code = 404
    /\ rest.err.code = 404
    /\ rest.err.body = Str_not_found

\* C19: the incident returned by a successful Get or Create has the details
\* of the answered record's body as its Description, and an empty
\* Description when the record has no body.
C19_DescriptionFromBody ==
    (rest.pc = "done" /\ rest.op \in {"Get", "Create"} /\ rest.err = NoError) =>
        rest.out.Description
            = (IF rest.answers[1].incident.Body.present
               THEN rest.answers[1].incident.Body.details ELSE << >>)

\* C18: the service converted from a record with n teams has exactly the
\* n tags team_0 .. team_(n-1), tag team_i holding the summary of the team
\* at position i of the record (from 0), and Metadata teams listing the n
\* teams in the record's order; with no team the tags are empty and
\* Metadata has no teams key.
C18_TeamTags ==
    (conv.pc = "done" /\ conv.fn = "convertPDService") =>
       LET teams == conv.arg.Teams
           n == Len(teams)
       IN /\ DOMAIN conv.out.Tags = {<<"t", "e", "a", "m", "_">> \o FormatNat(i) : i \in 0..(n - 1)}
          /\ Cardinality(DOMAIN conv.out.Tags) = n
          /\ \A i \in 0..(n - 1) :
                conv.out.Tags[<<"t", "e", "a", "m", "_">> \o FormatNat(i)] = teams[i + 1].Summary
          /\ "teams" \in DOMAIN conv.out.Metadata <=> n > 0
          /\ n > 0 =>
                /\ Len(conv.out.Metadata["teams"]) = n
                /\ \A i \in 1..n :
                      /\ conv.out.Metadata["teams"][i].id = teams[i].ID
                      /\ conv.out.Metadata["teams"][i].summary = teams[i].Summary

\* a record with the teams Backend Team, Platform Team, Platform Team, in
\* that order, was converted
C18_Witness ==
    /\ conv.pc = "done"
    /\ conv.fn = "convertPDService"
    /\ Len(conv.arg.Teams) = 3
    /\ conv.arg.Teams[1].ID = Str_TEAM2
    /\ conv.arg.Teams[2].ID = Str_TEAM1
    /\ conv.arg.Teams[3].ID = Str_TEAM3
    /\ conv.out.Tags[<<"t", "e", "a", "m", "_", "0">>] = Str_BackendTeam
    /\ conv.out.Tags[<<"t", "e", "a", "m", "_", "2">>] = Str_PlatformTeam

\* the keys and values of the map at an address, as a reader sees them
Deref(h, a) == IF a = NilAddr THEN NilMap ELSE MapOf(h[a])

\* what Get(id) returns, with the keys and values of its maps
ReadIncident(m, h, id) ==
    LET r == MemGet(m, id) IN
    IF r.err # NoError THEN [err |-> r.err]
    ELSE [err |-> NoError, inc |-> r.val,
          Fields |-> Deref(h, r.val.Fields), Metadata |-> Deref(h, r.val.Metadata)]

\* what GetTimeline(id) returns, with the keys and values of its maps
ReadTimeline(m, h, id) ==
    LET r == MemGetTimeline(m, id) IN
    [i \in 1..Len(r.val) |->
        [entry |-> r.val[i],
         Actor |-> Deref(h, r.val[i].Actor), Metadata |-> Deref(h, r.val[i].Metadata)]]

\* the caller changes, adds or removes a key of a map it passed in
CallerMutation ==
    \E a \in Addrs : \E key \in MemKeys : CallerSetsKey(a, key) \/ CallerDeletesKey(a, key)

\* C20: no map stored by Create, Update or AppendTimeline is a map the
\* caller passed in, and a step in which the caller changes, adds or removes
\* a key of a map it passed in leaves what Get and GetTimeline return for
\* every id as it was.
C20_CallerMapsIsolated ==
    /\ [](held \cap AddrsOfMem(mem) = {})
    /\ [][CallerMutation =>
            \A id \in MemIDs :
               /\ ReadIncident(mem', heap', id) = ReadIncident(mem, heap, id)
               /\ ReadTimeline(mem', heap', id) = ReadTimeline(mem, heap, id)]_vars

\* Get returned Fields with k = "v" after the caller set k = "mutated" in
\* the Fields map it had passed to Create
C20_Witness ==
    /\ budget.mutations > 0
    /\ ret.op = "Get"
    /\ ret.err = NoError
    /\ ret.val.Fields # NilAddr
    /\ heap[ret.val.Fields]["k"] = MemStr(Str_v)
    /\ \E a \in held : "k" \in DOMAIN heap[a] /\ heap[a]["k"] = MemStr(Str_mutated)

\* the keys and values of the map at an address, nested maps included
DeepDeref(h, a) ==
    IF a = NilAddr THEN NilMap
    ELSE MapOf([k \in DOMAIN h[a] |->
                  IF h[a][k].ref = NilAddr THEN h[a][k]
                  ELSE [nested |-> h[h[a][k].ref]]])

\* what Get(id) returns, with the keys and values of its maps and of the
\* maps nested in them
DeepReadIncident(m, h, id) ==
    LET r == MemGet(m, id) IN
    IF r.err # NoError THEN [err |-> r.err]
    ELSE [err |-> NoError, inc |-> r.val,
          Fields |-> DeepDeref(h, r.val.Fields), Metadata |-> DeepDeref(h, r.val.Metadata)]

\* what GetTimeline(id) returns, with the keys and values of its maps and
\* of the maps nested in them
DeepReadTimeline(m, h, id) ==
    LET r == MemGetTimeline(m, id) IN
    [i \in 1..Len(r.val) |->
        [entry |-> r.val[i],
         Actor |-> DeepDeref(h, r.val[i].Actor),
         Metadata |-> DeepDeref(h, r.val[i].Metadata)]]

\* C21: a step in which the caller changes, adds or removes a key of a map
\* it passed to Create, Update or AppendTimeline, or of a map nested in it,
\* leaves every stored incident and timeline entry as it was, nested maps
\* included.
C21_NestedMapsIsolated ==
    [][CallerMutation =>
         \A id \in MemIDs :
            /\ DeepReadIncident(mem', heap', id) = DeepReadIncident(mem, heap, id)
            /\ DeepReadTimeline(mem', heap', id) = DeepReadTimeline(mem, heap, id)]_vars

\* the caller changes, adds or removes a key of a map of a returned value
ReturnedMutation ==
    \E a \in Addrs : \E key \in MemKeys :
        CallerSetsReturnedKey(a, key) \/ CallerDeletesReturnedKey(a, key)

\* C22: a step in which the caller changes, adds or removes a key of a
\* Fields, Metadata or Actor map of a value returned by Get, List, Query,
\* GetTimeline, Create or Update leaves what Get, GetTimeline and Query
\* return afterwards as it was.
C22_ReturnedMapsAreCopies ==
    [][ReturnedMutation =>
         /\ \A id \in MemIDs :
               /\ ReadIncident(mem', heap', id) = ReadIncident(mem, heap, id)
               /\ ReadTimeline(mem', heap', id) = ReadTimeline(mem, heap, id)
         /\ \A q \in ReadBackQueries : MemQuery(mem', heap', q) = MemQuery(mem, heap, q)]_vars

\* a step that is a Create call
CreateStep ==
    \/ \E in \in MemCreateInputs : CallCreate(in)
    \/ CallCreateNested

\* C23: the k-th Create returns and stores ID pd-k: the stored IDs are
\* exactly pd-1 .. pd-nextID, pairwise distinct, each incident stored under
\* its own ID; a Create step raises the counter by one and adds an ID that
\* was not stored before; any other step leaves the counter and the set of
\* stored IDs as they were.
C23_SequentialIDs ==
    /\ [](/\ DOMAIN mem.incidents = {IncidentID(k) : k \in 1..mem.nextID}
          /\ Cardinality(DOMAIN mem.incidents) = mem.nextID
          /\ \A id \in DOMAIN mem.incidents : mem.incidents[id].ID = id)
    /\ [][IF CreateStep
          THEN /\ mem'.nextID = mem.nextID + 1
               /\ ret'.val.ID = <<"p", "d", "-">> \o Sprintf_d(mem.nextID + 1)
               /\ ret'.val.ID \notin DOMAIN mem.incidents
               /\ DOMAIN mem'.incidents = DOMAIN mem.incidents \cup {ret'.val.ID}
          ELSE /\ mem'.nextID = mem.nextID
               /\ DOMAIN mem'.incidents = DOMAIN mem.incidents]_vars

\* the second Create returned pd-2 while pd-1 is still stored
C23_Witness ==
    /\ ret.op = "Create"
    /\ ret.val.ID = <<"p", "d", "-", "2">>
    /\ mem.nextID = 2
    /\ DOMAIN mem.incidents = {<<"p", "d", "-", "1">>, <<"p", "d", "-", "2">>}

\* a step in which the loop answered a request it had parsed
RequestStep ==
    /\ plugin.alive
    /\ plugin'.resp.stage \notin {"", "parse"}
    /\ <<plugin'.resp, plugin'.config, plugin'.provider>>
          # <<plugin.resp, plugin.config, plugin.provider>>

\* C24: a plugin constructs at most one provider; once the package variable
\* provider is set, no step changes it or constructs another, and every
\* request answered by a provider call is answered by that instance,
\* whatever the request's config.
C24_ProviderCached ==
    /\ [](plugin.provider # NoProvider => plugin.provider.n = 1 /\ plugin.built = 1)
    /\ [][plugin.provider # NoProvider =>
            /\ plugin'.provider = plugin.provider
            /\ plugin'.built = plugin.built
            /\ (RequestStep /\ plugin'.resp.stage = "call" =>
                  plugin'.resp.by = plugin.provider.n)]_vars

\* the provider built with source "demo" answered a request whose config
\* has source "other" and no apiToken
C24_Witness ==
    /\ plugin.provider # NoProvider
    /\ plugin.provider.cfg.Source = Str_demo
    /\ plugin.config # << >>
    /\ plugin.config.source = Ptr(Str_other)
    /\ plugin.config.apiToken = Nil
    /\ plugin.resp.stage = "call"
    /\ plugin.resp.by = 1

\* the config lacks a credential the plugin's provider requires
LacksCredential(kind, raw) ==
    \/ raw.apiToken \in {Nil, Ptr(Str_blank)}
    \/ raw.apiURL = Ptr(Str_blank)
    \/ kind = "incident" /\ (raw.serviceID = Nil \/ raw.fromEmail = Nil)

\* C28: when provider is nil and a request's config lacks a required
\* credential, the response is the construction error, provider stays nil,
\* nothing is constructed and the loop keeps running; when the config has
\* every credential, provider becomes the first instance, built from that
\* request's own config.
C28_FailureNotCached ==
    [][RequestStep /\ plugin.provider = NoProvider =>
         IF LacksCredential(plugin.kind, plugin'.config)
         THEN /\ plugin'.resp.stage = "init"
              /\ plugin'.resp.error # ""
              /\ plugin'.provider = NoProvider
              /\ plugin'.built = 0
              /\ plugin'.alive
         ELSE /\ plugin'.provider.n = 1
              /\ plugin'.built = 1
              /\ plugin'.provider.cfg.Source = plugin'.config.source.v
              /\ plugin'.provider.cfg.APIToken = plugin'.config.apiToken.v]_vars

\* a request without apiToken was answered with the construction error,
\* provider is still nil and the loop is running
C28_Witness ==
    /\ plugin.resp.stage = "init"
    /\ plugin.resp.error = "pagerduty apiToken is required"
    /\ plugin.config.apiToken = Nil
    /\ plugin.provider = NoProvider
    /\ plugin.alive

\* C25: for an id under which no incident is stored, a Get, Update or
\* AppendTimeline call returns the not-found error and a GetTimeline call
\* returns an empty list without error; each of them leaves the incidents,
\* the timelines and the counter nextID as they were.
C25_UnknownID ==
    [][\A id \in MemIDs : id \notin DOMAIN mem.incidents =>
         /\ (\/ CallGet(id)
             \/ \E in \in MemUpdateInputs : CallUpdate(id, in)
             \/ \E entry \in MemAppendInputs : CallAppendTimeline(id, entry))
              => /\ ret'.err.cause = "incident not found"
                 /\ mem' = mem
         /\ CallGetTimeline(id)
              => /\ ret'.err = NoError
                 /\ ret'.val = << >>
                 /\ mem' = mem]_vars

\* Update of an id never created returned the not-found error while pd-1
\* is stored and no timeline exists
C25_Witness ==
    /\ ret.op = "Update"
    /\ ret.err.cause = "incident not found"
    /\ DOMAIN mem.incidents = {<<"p", "d", "-", "1">>}
    /\ mem.nextID = 1
    /\ DOMAIN mem.timeline = {}

\* the number k of the ID pd-k
Suffix(id) == AtoiNat(SubSeq(id, 4, Len(id)))

\* the stored incidents that satisfy every filter of q, in creation order
\* (pd-1, pd-2, ...), cut to the first Limit when Limit > 0
InCreationOrder(m, h, q) ==
    LET found == {n \in 1..m.nextID : matchesQuery(h, m.incidents[IncidentID(n)], q)}
        sorted == [i \in 1..Cardinality(found) |->
                     m.incidents[IncidentID(
                        CHOOSE n \in found : Cardinality({k \in found : k < n}) = i - 1)]]
    IN IF q.Limit > 0 /\ Len(sorted) > q.Limit THEN SubSeq(sorted, 1, q.Limit) ELSE sorted

\* C26: Query returns exactly the stored incidents that satisfy every
\* filter, in creation order (ascending numeric suffix of the ID), cut to
\* the first Limit of them when Limit > 0, however many incidents are
\* stored.
C26_QueryCreationOrder ==
    [][\A q \in StoredQueries :
         QueryStored(q) =>
            /\ ret'.err = NoError
            /\ ret'.val = InCreationOrder(mem, heap, q)
            /\ \A i \in 1..(Len(ret'.val) - 1) :
                  Suffix(ret'.val[i].ID) < Suffix(ret'.val[i + 1].ID)]_vars

\* C29: every stored incident's Metadata holds the key source with the
\* configured Source as its value.
C29_SourceStamped ==
    \A id \in DOMAIN mem.incidents :
        /\ mem.incidents[id].Metadata # NilAddr
        /\ "source" \in DOMAIN heap[mem.incidents[id].Metadata]
        /\ heap[mem.incidents[id].Metadata]["source"] = MemStr(mem.cfg.Source)

C27_LockSerialises ==
    /\ [](\A g \in Goroutines : conc.go[g].pc \notin {"idle", "lock"} => conc.mu = g)
    /\ [](conc.mu = Unlocked =>
            /\ mem.nextID = conc.created
            /\ Cardinality(DOMAIN mem.incidents) = conc.created
            /\ Len(MemGetTimeline(mem, IncidentID(1)).val) = conc.appended)
    /\ [](\A g1, g2 \in Goroutines :
            /\ g1 # g2
            /\ conc.go[g1].pc = "idle" /\ conc.go[g1].ret.op = "Create"
            /\ conc.go[g2].pc = "idle" /\ conc.go[g2].ret.op = "Create"
            => conc.go[g1].ret.val.ID # conc.go[g2].ret.val.ID)
    /\ [](\A id \in DOMAIN mem.timeline : \A i \in 1..Len(mem.timeline[id]) :
            mem.timeline[id][i].ID = id \o <<"-", "t">> \o Sprintf_d(i))
    /\ [][\A g \in Goroutines :
            conc.go[g].pc = "unlock" /\ conc'.go[g].pc = "idle" =>
               LET once == AtOnce(conc.go[g])
               IN /\ mem = once.mem
                  /\ heap = once.heap
                  /\ conc.go[g].ret = once.ret]_vars

\* goroutine 1 is inside AppendTimeline on pd-1, between reading the length
\* and appending, while goroutine 2 waits at Lock for its own
\* AppendTimeline on pd-1
C27_Witness ==
    /\ conc.mu = 1
    /\ conc.go[1].op = "AppendTimeline"
    /\ conc.go[1].pc = "append"
    /\ conc.go[2].op = "AppendTimeline"
    /\ conc.go[2].pc = "lock"

====
